---- MODULE Spec2Model ----
(***************************************************************************)
(* fauxcaml: the Hindley-Milner type checker (semantics/) and the lowering *)
(* of type-checked programs into the builder context (lir/, prelude/,      *)
(* build/), modelled as state machines.  The state is the Checker object:  *)
(* its UnifierSet (the disjoint-set dict `map`, the set                    *)
(* `non_generic_vars`, the position in the fresh-name stream) and its      *)
(* scoped `type_env`; and the builder context NasmGenCtx with the          *)
(* with-blocks that are open on it.  The machines: Spec (calls on the      *)
(* unifier), SpecDup (type duplication), SpecNonGeneric (unification of    *)
(* non-generic variables), SpecJoin (joins of trees of different sizes),   *)
(* SpecInfer (the REPL inferring the types of                              *)
(* whole programs), SpecEnv (the scoped environment), SpecCaptures         *)
(* (captures of AST nodes), SpecBuilder (with-blocks of the builder        *)
(* context), SpecClosure (emission of closures) and SpecLower (the compile *)
(* pipeline).                                                              *)
(***************************************************************************)
EXTENDS Integers, Sequences, FiniteSets, TLC

VARIABLES
    map,              \* DisjointSet.map: element -> size (root) or parent
    non_generic_vars, \* UnifierSet.non_generic_vars
    fresh,            \* how many names were taken from _fresh_var_names
    type_env,         \* Checker.type_env: the chain of Env scopes, innermost last
    last,             \* the call made last: operation, arguments, outcome
    ctx,              \* the builder context (NasmGenCtx)
    withs             \* the with-blocks of the builder context that are open,
                      \* innermost last: what each holds at its `yield`

vars == <<map, non_generic_vars, fresh, type_env, last, ctx, withs>>
checker == <<map, non_generic_vars, fresh, type_env>>
builder == <<ctx, withs>>

-----------------------------------------------------------------------------
(* Bounds of the model.                                                    *)

MaxVars == 2        \* variables the unifier-level calls may name
MaxElems == 8       \* elements of the disjoint set up to which unify is called
MaxDup == 3         \* the stream position up to which duplicate_type is called
MaxDepth == 10      \* nesting depth of unify calls that stands for the
                    \* interpreter's recursion limit
MaxFresh == 10      \* the stream position up to which the REPL reads input
MaxScopes == 3      \* scopes of the type_env the environment's client nests
MaxCaptures == 3    \* values captured by a closure that is emitted on its own
MaxFns == 3         \* FnDef objects of one builder context, main included
MaxWiths == 2       \* with-blocks of the builder context open at once
MaxTemps == 1       \* temporaries the builder's client allocates in a function
MaxBody == 1        \* instructions the builder's client adds to a function
MaxJoinVars == 3    \* variables the client of the join machine makes
MaxFact == 5        \* the largest argument of the factorial program

-----------------------------------------------------------------------------
(* typ.py: type terms.  A term is <<"Var", name>> or <<class, vals>>.      *)

Var(val) == <<"Var", val>>
Poly(cls, vals) == <<cls, vals>>
IntT == Poly("Int", <<>>)
BoolT == Poly("Bool", <<>>)
UnitT == Poly("Unit", <<>>)
List(a) == Poly("List", <<a>>)
Fn(a, b) == Poly("Fn", <<a, b>>)
Tuple(vals) == Poly("Tuple", vals)

IsVar(t) == t[1] = "Var"
IsPoly(t) == t[1] # "Var"
Cls(t) == t[1]
Vals(t) == t[2]

\* A dict value of DisjointSet.map: an int (the size of the tree below a
\* root) or the parent element.
Size(n) == <<"int", n>>
IsInt(res) == res[1] = "int"

\* The value of `last` fields that a call does not set.
None == <<"None", <<>>>>
-----------------------------------------------------------------------------
(* disjoint_set.py, unifier_set.py.  An operator takes the UnifierSet `u`  *)
(* (a record of its fields) and returns the outcome of the call: how it    *)
(* ended (`status`), the UnifierSet it leaves behind and its return value. *)
(* status "ok" is a normal return; any other status is the exception       *)
(* raised.  "RecursionError" is the interpreter's error for a recursion    *)
(* that does not end.                                                      *)

OK == "ok"
UnificationError == "UnificationError"
RecursiveUnificationError == "RecursiveUnificationError"
RecursionError == "RecursionError"
EnvKeyError == "EnvKeyError"

\* DisjointSet.add
add(m, e) == IF e \in DOMAIN m THEN m ELSE (e :> Size(1)) @@ m

\* DisjointSet.root_of, with its path compression.  `seen` holds the
\* elements of the calls that are still open: meeting one of them again
\* means the recursion never returns.
RECURSIVE root_of(_, _, _)
root_of(m, e, seen) ==
    LET res == m[e] IN
    IF IsInt(res) THEN [status |-> OK, root |-> e, map |-> m]
    ELSE IF res \in seen \cup {e} THEN [status |-> RecursionError, root |-> e, map |-> m]
    ELSE LET r == root_of(m, res, seen \cup {e}) IN
         IF r.status = OK
         THEN [status |-> OK, root |-> r.root, map |-> [r.map EXCEPT ![e] = r.root]]
         ELSE r

\* UnifierSet.fresh_var
fresh_var(u, non_generic) ==
    LET v == Var(u.fresh) IN
    [ret |-> v,
     u |-> [map |-> add(u.map, v),
            non_generic_vars |-> IF non_generic THEN u.non_generic_vars \cup {v}
                                 ELSE u.non_generic_vars,
            fresh |-> u.fresh + 1]]

\* UnifierSet.occurs_in_type
RECURSIVE occurs_in_type(_, _)
occurs_in_type(t1, t2) ==
    IF t1 = t2 THEN TRUE
    ELSE IF IsPoly(t2) THEN \E i \in DOMAIN Vals(t2) : occurs_in_type(t1, Vals(t2)[i])
    ELSE FALSE

\* UnifierSet.make_non_generic: the set non_generic_vars after the call.
RECURSIVE make_non_generic(_, _)

\* make_non_generic that does not descend into a compound type.
make_non_generic_shallow(ngv, t) == IF IsVar(t) THEN ngv \cup {t} ELSE ngv

make_non_generic(ngv, t) ==
    IF IsVar(t) THEN ngv \cup {t}
    ELSE ngv \cup UNION {make_non_generic({}, Vals(t)[i]) : i \in DOMAIN Vals(t)}

\* is_non_generic that takes every variable for generic.
is_non_generic_never(ngv, v) == FALSE

\* UnifierSet.is_non_generic
is_non_generic(ngv, v) == v \in ngv

\* UnifierSet.concretize.  `open` holds the terms of the calls that are
\* still open.  The dict is returned too: root_of compresses paths.
RECURSIVE concretize(_, _, _)
RECURSIVE concretize_vals(_, _, _, _)
concretize(m, t, open) ==
    IF t \in open THEN [status |-> RecursionError, ret |-> None, map |-> m]
    ELSE IF IsVar(t) THEN
        LET r == root_of(m, t, {}) IN
        IF r.status # OK THEN [status |-> r.status, ret |-> None, map |-> r.map]
        ELSE IF r.root = t THEN [status |-> OK, ret |-> r.root, map |-> r.map]
        ELSE concretize(r.map, r.root, open \cup {t})
    ELSE LET vs == concretize_vals(m, Vals(t), 1, open \cup {t}) IN
         IF vs.status # OK THEN [status |-> vs.status, ret |-> None, map |-> vs.map]
         ELSE [status |-> OK, ret |-> Poly(Cls(t), vs.ret), map |-> vs.map]

\* The generator `(self.concretize(v) for v in t.vals)`, run from left to right.
concretize_vals(m, vals, i, open) ==
    IF i > Len(vals) THEN [status |-> OK, ret |-> <<>>, map |-> m]
    ELSE LET c == concretize(m, vals[i], open) IN
         IF c.status # OK THEN c
         ELSE LET rest == concretize_vals(c.map, vals, i + 1, open) IN
              IF rest.status # OK THEN rest
              ELSE [status |-> OK, ret |-> <<c.ret>> \o rest.ret, map |-> rest.map]

\* UnifierSet.join_roots, DisjointSet.join and UnifierSet.unify.  `depth` is
\* the number of nested unify calls still allowed before RecursionError.
RECURSIVE unify(_, _, _, _)
RECURSIVE unify_vals(_, _, _, _, _)
RECURSIVE join_roots(_, _, _, _)

\* join_roots that looks at the sizes alone.
join_roots_by_size(u, r1, r2, depth) ==
    LET size1 == u.map[r1][2]
        size2 == u.map[r2][2]
    IN
    IF size1 > size2
    THEN [status |-> OK,
          u |-> [u EXCEPT !.map = [[u.map EXCEPT ![r1] = Size(size1 + size2)] EXCEPT ![r2] = r1]]]
    ELSE [status |-> OK,
          u |-> [u EXCEPT !.map = [[u.map EXCEPT ![r2] = Size(size2 + size1)] EXCEPT ![r1] = r2]]]

join_roots(u, r1, r2, depth) ==
    LET size1 == u.map[r1][2]
        size2 == u.map[r2][2]
        under2 == [[u.map EXCEPT ![r2] = Size(size2 + size1)] EXCEPT ![r1] = r2]
        under1 == [[u.map EXCEPT ![r1] = Size(size1 + size2)] EXCEPT ![r2] = r1]
    IN
    IF IsVar(r1) /\ ~IsVar(r2) THEN [status |-> OK, u |-> [u EXCEPT !.map = under2]]
    ELSE IF IsVar(r2) /\ ~IsVar(r1) THEN [status |-> OK, u |-> [u EXCEPT !.map = under1]]
    ELSE IF IsVar(r1) /\ IsVar(r2) THEN
        IF size1 > size2 THEN [status |-> OK, u |-> [u EXCEPT !.map = under1]]
        ELSE [status |-> OK, u |-> [u EXCEPT !.map = under2]]
    ELSE IF Cls(r1) # Cls(r2) THEN [status |-> UnificationError, u |-> u]
    ELSE unify(u, r1, r2, depth - 1)

join(u, e1, e2, depth) ==
    LET r1 == root_of(u.map, e1, {}) IN
    IF r1.status # OK THEN [status |-> r1.status, u |-> [u EXCEPT !.map = r1.map]]
    ELSE LET r2 == root_of(r1.map, e2, {}) IN
         IF r2.status # OK THEN [status |-> r2.status, u |-> [u EXCEPT !.map = r2.map]]
         ELSE join_roots([u EXCEPT !.map = r2.map], r1.root, r2.root, depth)

unify(u, t1, t2, depth) ==
    IF depth = 0 THEN [status |-> RecursionError, u |-> u]
    ELSE IF IsVar(t1) THEN
        LET ng1 == IF is_non_generic(u.non_generic_vars, t1)
                   THEN make_non_generic(u.non_generic_vars, t2)
                   ELSE u.non_generic_vars
            ng2 == IF IsVar(t2) /\ is_non_generic(ng1, t2)
                   THEN make_non_generic(ng1, t1)
                   ELSE ng1
            u1 == [u EXCEPT !.map = add(add(u.map, t1), t2), !.non_generic_vars = ng2]
        IN
        IF t1 = t2 THEN [status |-> OK, u |-> u1]
        ELSE IF occurs_in_type(t1, t2) THEN [status |-> RecursiveUnificationError, u |-> u1]
        ELSE join(u1, t1, t2, depth)
    ELSE IF IsPoly(t2) THEN
        IF Cls(t1) # Cls(t2) THEN [status |-> UnificationError, u |-> u]
        ELSE IF Len(Vals(t1)) # Len(Vals(t2)) THEN [status |-> UnificationError, u |-> u]
        ELSE unify_vals(u, Vals(t1), Vals(t2), 1, depth)
    ELSE unify(u, t2, t1, depth - 1)

\* The loop `for x, y in zip(t1.vals, t2.vals): self.unify(x, y)`.
unify_vals(u, xs, ys, i, depth) ==
    IF i > Len(xs) THEN [status |-> OK, u |-> u]
    ELSE LET r == unify(u, xs[i], ys[i], depth - 1) IN
         IF r.status # OK THEN r
         ELSE unify_vals(r.u, xs, ys, i + 1, depth)

\* make_generic that leaves the variable in the set.
make_generic_keeps(ngv, v) == ngv

\* UnifierSet.make_generic: set.remove raises KeyError on a missing element.
make_generic(ngv, v) == ngv \ {v}

-----------------------------------------------------------------------------
(* check.py: Checker.duplicate_type.  `substitutions` is the dict shared   *)
(* by the recursive calls.                                                 *)

RECURSIVE duplicate_type(_, _, _)
RECURSIVE duplicate_vals(_, _, _, _)

\* duplicate_type that forgets to record the substitution it has just made.
duplicate_type_forgetful(u, t, substitutions) ==
    LET c == concretize(u.map, t, {})
        u1 == [u EXCEPT !.map = c.map]
    IN
    IF c.status # OK
    THEN [status |-> c.status, ret |-> None, u |-> u1, substitutions |-> substitutions]
    ELSE IF IsVar(c.ret) THEN
        IF is_non_generic(u1.non_generic_vars, c.ret)
        THEN [status |-> OK, ret |-> c.ret, u |-> u1, substitutions |-> substitutions]
        ELSE LET f == fresh_var(u1, FALSE) IN
             [status |-> OK, ret |-> f.ret, u |-> f.u, substitutions |-> substitutions]
    ELSE LET args == duplicate_vals(u1, Vals(c.ret), 1, substitutions) IN
         IF args.status # OK THEN args
         ELSE [status |-> OK, ret |-> Poly(Cls(c.ret), args.ret), u |-> args.u,
               substitutions |-> args.substitutions]

duplicate_type(u, t, substitutions) ==
    LET c == concretize(u.map, t, {})
        u1 == [u EXCEPT !.map = c.map]
    IN
    IF c.status # OK
    THEN [status |-> c.status, ret |-> None, u |-> u1, substitutions |-> substitutions]
    ELSE IF IsVar(c.ret) THEN
        IF is_non_generic(u1.non_generic_vars, c.ret)
        THEN [status |-> OK, ret |-> c.ret, u |-> u1, substitutions |-> substitutions]
        ELSE IF c.ret \in DOMAIN substitutions
        THEN [status |-> OK, ret |-> substitutions[c.ret], u |-> u1,
              substitutions |-> substitutions]
        ELSE LET f == fresh_var(u1, FALSE) IN
             [status |-> OK, ret |-> f.ret, u |-> f.u,
              substitutions |-> (c.ret :> f.ret) @@ substitutions]
    ELSE LET args == duplicate_vals(u1, Vals(c.ret), 1, substitutions) IN
         IF args.status # OK THEN args
         ELSE [status |-> OK, ret |-> Poly(Cls(c.ret), args.ret), u |-> args.u,
               substitutions |-> args.substitutions]

\* The generator `(self.duplicate_type(x, substitutions) for x in t.vals)`.
duplicate_vals(u, vals, i, substitutions) ==
    IF i > Len(vals)
    THEN [status |-> OK, ret |-> <<>>, u |-> u, substitutions |-> substitutions]
    ELSE LET d == duplicate_type(u, vals[i], substitutions) IN
         IF d.status # OK THEN d
         ELSE LET rest == duplicate_vals(d.u, vals, i + 1, d.substitutions) IN
              IF rest.status # OK THEN rest
              ELSE [status |-> OK, ret |-> <<d.ret>> \o rest.ret, u |-> rest.u,
                    substitutions |-> rest.substitutions]

-----------------------------------------------------------------------------
(* env.py, std_env.py and Checker.__init__.  The chain of Env objects is a *)
(* sequence of scopes (functions from names to types), the innermost last. *)

\* Env.__setitem__: writes into the innermost scope.
env_set(env, key, value) ==
    [env EXCEPT ![Len(env)] = (key :> value) @@ @]

\* Env.__getitem__: the innermost scope on the chain that defines the key.
RECURSIVE env_get(_, _)

\* A lookup that returns the binding of the outermost scope that defines the key.
env_get_outermost(env, key) ==
    IF \A i \in DOMAIN env : key \notin DOMAIN env[i]
    THEN [status |-> EnvKeyError, ret |-> None]
    ELSE [status |-> OK,
          ret |-> env[CHOOSE i \in DOMAIN env :
                        /\ key \in DOMAIN env[i]
                        /\ \A j \in 1 .. i - 1 : key \notin DOMAIN env[j]][key]]

env_get(env, key) ==
    IF env = <<>> THEN [status |-> EnvKeyError, ret |-> None]
    ELSE IF key \in DOMAIN env[Len(env)] THEN [status |-> OK, ret |-> env[Len(env)][key]]
    ELSE env_get(SubSeq(env, 1, Len(env) - 1), key)

\* std_env.std_env: four fresh variables, then the table of built-ins.
std_env(u) ==
    LET T == fresh_var(u, FALSE)
        U_ == fresh_var(T.u, FALSE)
        V == fresh_var(U_.u, FALSE)
        W == fresh_var(V.u, FALSE)
    IN
    [u |-> W.u,
     env |-> <<
       ("null" :> Fn(List(T.ret), BoolT)) @@
       ("tail" :> Fn(List(U_.ret), List(U_.ret))) @@
       ("zero" :> Fn(IntT, BoolT)) @@
       ("succ" :> Fn(IntT, IntT)) @@
       ("pred" :> Fn(IntT, IntT)) @@
       ("times" :> Fn(IntT, Fn(IntT, IntT))) @@
       ("pair" :> Fn(V.ret, Fn(W.ret, Tuple(<<V.ret, W.ret>>)))) @@
       ("+" :> Fn(Tuple(<<IntT, IntT>>), IntT)) @@
       ("-" :> Fn(Tuple(<<IntT, IntT>>), IntT)) @@
       ("*" :> Fn(Tuple(<<IntT, IntT>>), IntT)) @@
       ("div" :> Fn(Tuple(<<IntT, IntT>>), IntT)) @@
       ("mod" :> Fn(Tuple(<<IntT, IntT>>), IntT)) @@
       ("=" :> Fn(Tuple(<<IntT, IntT>>), BoolT)) @@
       ("exit" :> Fn(IntT, UnitT))
     >>]

\* Checker.__init__: an empty UnifierSet, then the standard environment.
NewChecker == std_env([map |-> <<>>, non_generic_vars |-> {}, fresh |-> 0])

\* The number of variables std_env takes from the stream.
StdVars == NewChecker.u.fresh

-----------------------------------------------------------------------------
(* lir/lir.py and lir/gen_ctx.py.  A value, label or instruction is a      *)
(* tuple that starts with the name of its class; an optional string is an  *)
(* empty or one-element sequence.  The builder context NasmGenCtx is a     *)
(* record of its fields.  Objects that are shared by reference are held in *)
(* a heap and named by their position: `fns` holds the FnDef objects       *)
(* (`current_fn` and `main_fn_def` are positions in it) and `dicts` holds  *)
(* the local_names dicts (`local_names` and `main_local_names` are         *)
(* positions in it).  A dict is a function from names.                     *)

Temp64(id) == <<"Temp64", id>>
Temp0 == <<"Temp0", 0>>
I64(val) == <<"I64", val>>
Label(id, custom_name) == <<"Label", id, custom_name>>

\* Value.size(): the class constant SIZE
size(val) == IF val = Temp0 THEN 0 ELSE 8

EnvLookup(index, res, name) == <<"EnvLookup", index, res, name>>
CallClosure(fn, arg, ret) == <<"CallClosure", fn, arg, ret>>
CreateClosure(fn_lbl, captures, ret, recursive) ==
    <<"CreateClosure", fn_lbl, captures, ret, recursive>>
Return(value) == <<"Return", value>>
Assign(lhs, rhs) == <<"Assign", lhs, rhs>>
IfFalse(cond, label) == <<"IfFalse", cond, label>>
Goto(label) == <<"Goto", label>>
LabelInstr(label) == <<"LabelInstr", label[2], label[3]>>
CreateTuple(values, ret) == <<"CreateTuple", values, ret>>
Nasm(description) == <<"Nasm", description>>
Intrinsic(operation, arg1, arg2, res) == <<operation, arg1, arg2, res>>

PARAM_ID == -1
ENV_ID == -2

\* FnDef(label, param, env) and its __post_init__
FnDef(label, param, env) ==
    [label |-> label, param |-> param, env |-> env, body |-> <<>>,
     temporaries |-> (env :> 24) @@ (param :> 16),
     current_offset |-> 0, next_temp_id |-> 0]

\* FnDef.new_temp64; `offset` is the stack offset of the new temporary.
FnDef_allocated(fn, t, offset) ==
    [ret |-> t,
     fn |-> [fn EXCEPT !.next_temp_id = @ + 1,
                       !.current_offset = offset,
                       !.temporaries = (t :> offset) @@ @]]

\* new_temp64 that grows the frame upwards.
FnDef_new_temp64_upwards(fn) ==
    FnDef_allocated(fn, Temp64(fn.next_temp_id), fn.current_offset + size(Temp64(0)))

FnDef_new_temp64(fn) ==
    FnDef_allocated(fn, Temp64(fn.next_temp_id), fn.current_offset - size(Temp64(0)))

\* NasmGenCtx.__init__ with create_main_fn_def
NasmGenCtx ==
    [next_label_id |-> 1,
     statics |-> <<>>,
     captured_names |-> <<>>,
     dicts |-> <<<<>>>>,
     local_names |-> 1,
     main_fn_def |-> 1,
     main_local_names |-> 1,
     current_fn |-> 1,
     fns |-> <<FnDef(Label(0, <<"main">>), Temp0, Temp0)>>]

\* new_label that hands out the same id again.
new_label_same_id(c, custom_name) ==
    [ret |-> Label(c.next_label_id, custom_name), ctx |-> c]

new_label(c, custom_name) ==
    [ret |-> Label(c.next_label_id, custom_name),
     ctx |-> [c EXCEPT !.next_label_id = @ + 1]]

Ctx_allocated(c, t) == [ret |-> t.ret, ctx |-> [c EXCEPT !.fns[c.current_fn] = t.fn]]

new_temp64(c) == Ctx_allocated(c, FnDef_new_temp64(c.fns[c.current_fn]))

add_instr(c, instr) == [c EXCEPT !.fns[c.current_fn].body = Append(@, instr)]

add_instrs(c, instrs) == [c EXCEPT !.fns[c.current_fn].body = @ \o instrs]

\* `ctx.local_names[name] = value`
set_local_name(c, name, value) ==
    [c EXCEPT !.dicts[c.local_names] = (name :> value) @@ @]

\* The locals old_fn_def, old_local_names and old_captured_names that
\* inside_main and new_fn_def hold while they are suspended at `yield`.
Suspended(c) ==
    [old_fn_def |-> c.current_fn,
     old_local_names |-> c.local_names,
     old_captured_names |-> c.captured_names]

\* inside_main up to its `yield`
inside_main_enter(c) ==
    [c EXCEPT !.current_fn = c.main_fn_def,
              !.local_names = c.main_local_names,
              !.captured_names = <<>>]

\* new_fn_def up to its `yield`; `l` is the outcome of new_label.
new_fn_def_labelled(l, captures) ==
    [ret |-> <<l.ret, Temp64(PARAM_ID)>>,
     ctx |-> [l.ctx EXCEPT !.fns = Append(@, FnDef(l.ret, Temp64(PARAM_ID), Temp64(ENV_ID))),
                           !.current_fn = Len(l.ctx.fns) + 1,
                           !.dicts = Append(@, <<>>),
                           !.local_names = Len(l.ctx.dicts) + 1,
                           !.captured_names = captures]]

new_fn_def_enter(c, custom_fn_name, captures) ==
    new_fn_def_labelled(new_label(c, custom_fn_name), captures)

\* inside_main and new_fn_def after their `yield`: the statements that run
\* when the with-block ends without an exception.
with_exit(c, suspended) ==
    [c EXCEPT !.captured_names = suspended.old_captured_names,
              !.local_names = suspended.old_local_names,
              !.current_fn = suspended.old_fn_def]

\* The exceptions of the builder and of lowering.
KeyError == "KeyError"
ValueError == "ValueError"
NotImplementedError == "NotImplementedError"
AttributeError == "AttributeError"

\* Value.to_nasm_val: the operand that stands for a value in the function
\* that the context is emitting.  <<"rbp", offset>> is a stack slot,
\* <<"imm", val>> an immediate and <<"label", label>> the name of a label.
to_nasm_val(c, val) ==
    CASE val[1] = "Temp64" ->
           IF val \in DOMAIN c.fns[c.current_fn].temporaries
           THEN [status |-> OK, ret |-> <<"rbp", c.fns[c.current_fn].temporaries[val]>>]
           ELSE [status |-> KeyError, ret |-> None]
      [] val[1] = "Temp0" -> [status |-> ValueError, ret |-> None]
      [] val[1] = "I64" -> [status |-> OK, ret |-> <<"imm", val[2]>>]
      [] val[1] = "Label" -> [status |-> OK, ret |-> <<"label", val>>]

\* CreateClosure.to_nasm.  The assembly is a sequence of steps:
\* <<"malloc", size, None>> asks for a block of `size` bytes and keeps its
\* address in r8, <<"store", offset, operand>> writes the operand at
\* [r8 + offset], and <<"result", 0, operand>> stores r8 in the operand.
RECURSIVE sum_sizes(_, _)
sum_sizes(vals, i) == IF i > Len(vals) THEN 0 ELSE size(vals[i]) + sum_sizes(vals, i + 1)

CreateClosure_size(instr) ==
    size(instr[2]) + sum_sizes(instr[3], 1) + (IF instr[5] THEN size(instr[4]) ELSE 0)

\* The offset of the first capture that skips the label only.
CreateClosure_offset_after_label(instr) == size(instr[2])

\* The offset at which the captures start: after the label and, in a
\* recursive closure, the pointer to the closure.
CreateClosure_offset(instr) == size(instr[2]) + (IF instr[5] THEN 8 ELSE 0)

RECURSIVE CreateClosure_captures(_, _, _, _)

CreateClosure_capture_stored(offset, val, rest) ==
    IF val.status # OK THEN [status |-> val.status, ret |-> <<>>]
    ELSE IF rest.status # OK THEN rest
    ELSE [status |-> OK, ret |-> <<<<"store", offset, val.ret>>>> \o rest.ret]

\* the loop `for val in self.captures`
CreateClosure_captures(c, vals, i, offset) ==
    IF i > Len(vals) THEN [status |-> OK, ret |-> <<>>]
    ELSE CreateClosure_capture_stored(
             offset, to_nasm_val(c, vals[i]),
             CreateClosure_captures(c, vals, i + 1, offset + size(vals[i])))

CreateClosure_assembled(instr, stored, ret) ==
    IF stored.status # OK THEN [status |-> stored.status, ret |-> <<>>]
    ELSE IF ret.status # OK THEN [status |-> ret.status, ret |-> <<>>]
    ELSE [status |-> OK,
          ret |-> <<<<"malloc", CreateClosure_size(instr), None>>,
                    <<"store", 0, <<"label", instr[2]>>>>>>
                  \o (IF instr[5] THEN <<<<"store", size(instr[2]), <<"r8", 0>>>>>> ELSE <<>>)
                  \o stored.ret
                  \o <<<<"result", 0, ret.ret>>>>]

CreateClosure_to_nasm(c, instr) ==
    CreateClosure_assembled(
        instr,
        CreateClosure_captures(c, instr[3], 1, CreateClosure_offset(instr)),
        to_nasm_val(c, instr[4]))

\* EnvLookup.to_nasm: GetElementPtr of the environment at index + 1 with
\* stride 8.  <<"load", offset, operand>> reads [env + offset] into the
\* operand.
EnvLookup_loaded(instr, env, res) ==
    IF env.status # OK THEN [status |-> env.status, ret |-> <<>>]
    ELSE IF res.status # OK THEN [status |-> res.status, ret |-> <<>>]
    ELSE [status |-> OK, ret |-> <<<<"load", 8 * (instr[2] + 1), res.ret>>>>]

EnvLookup_to_nasm(c, instr) ==
    EnvLookup_loaded(instr, to_nasm_val(c, c.fns[c.current_fn].env), to_nasm_val(c, instr[3]))

\* Label.name.  The name of a lambda holds id(self) of its AST node, which
\* no two nodes share; the id of the label stands for it.
Label_name(label) ==
    IF label[3] = <<>> THEN "L" \o ToString(label[2])
    ELSE IF label[3][1] = "lambda$" THEN "lambda$" \o ToString(label[2])
    ELSE label[3][1]

\* FnDef.local_alloca_size: the sum of the sizes of the temporaries that are
\* neither the parameter nor the environment.
RECURSIVE sum_locals(_)
sum_locals(locals) ==
    IF locals = {} THEN 0
    ELSE LET local == CHOOSE l \in locals : TRUE IN
         size(local) + sum_locals(locals \ {local})

local_alloca_size(fn) == sum_locals(DOMAIN fn.temporaries \ {fn.param, fn.env})

\* An epilogue that pops nothing.
get_epilogue_ret_0(fn) == <<<<"leave", 0, None>>, <<"ret", 0, None>>>>

\* FnDef.get_epilogue: <<"ret", n, None>> returns and pops n bytes.
get_epilogue(fn) == <<<<"leave", 0, None>>, <<"ret", size(fn.param) + size(fn.env), None>>>>

\* A CallClosure that stores rax whatever the size of the result.
CallClosure_returned_always(instr, ret) ==
    IF ret.status # OK THEN [status |-> ret.status, ret |-> <<>>]
    ELSE [status |-> OK, ret |-> <<<<"mov from rax", 0, ret.ret>>>>]

\* CallClosure.to_nasm: `if self.ret.size() > 0: asm.append(mov ret, rax)`
CallClosure_returned(instr, ret) ==
    IF size(instr[4]) > 0
    THEN IF ret.status # OK THEN [status |-> ret.status, ret |-> <<>>]
         ELSE [status |-> OK, ret |-> <<<<"mov from rax", 0, ret.ret>>>>]
    ELSE [status |-> OK, ret |-> <<>>]

CallClosure_called(fn, arg, returned) ==
    IF fn.status # OK THEN [status |-> fn.status, ret |-> <<>>]
    ELSE IF arg.status # OK THEN [status |-> arg.status, ret |-> <<>>]
    ELSE IF returned.status # OK THEN returned
    ELSE [status |-> OK,
          ret |-> <<<<"mov rax", 0, fn.ret>>,
                    <<"push rax", 0, None>>,
                    <<"push", 0, arg.ret>>,
                    <<"call [rax]", 0, None>>>>
                  \o returned.ret]

\* CallClosure.to_nasm
CallClosure_to_nasm(c, instr) ==
    CallClosure_called(to_nasm_val(c, instr[2]), to_nasm_val(c, instr[3]),
                       CallClosure_returned(instr, to_nasm_val(c, instr[4])))

\* Return.to_nasm: rax holds the value, or zero for a value without size,
\* and the epilogue of the current function follows.
Return_value(value, operand) ==
    IF size(value) > 0
    THEN IF operand.status # OK THEN [status |-> operand.status, ret |-> <<>>]
         ELSE [status |-> OK, ret |-> <<<<"mov rax", 0, operand.ret>>>>]
    ELSE [status |-> OK, ret |-> <<<<"xor rax, rax", 0, None>>>>]

Return_epilogue(c, value) ==
    IF value.status # OK THEN value
    ELSE [status |-> OK, ret |-> value.ret \o get_epilogue(c.fns[c.current_fn])]

Return_to_nasm(c, instr) == Return_epilogue(c, Return_value(instr[2], to_nasm_val(c, instr[2])))

-----------------------------------------------------------------------------
(* The unifier-level state machine: a client (the tests of                 *)
(* test_unification.py and test_type_duplication.py) calls fresh_var,      *)
(* unify, concretize, make_non_generic, make_generic and duplicate_type on *)
(* one Checker in any order.                                               *)

\* The UnifierSet of the current state.
U == [map |-> map, non_generic_vars |-> non_generic_vars, fresh |-> fresh]

\* The variables a call may name, and the terms built from them.
Vars == {Var(i) : i \in StdVars .. (IF fresh < StdVars + MaxVars THEN fresh ELSE StdVars + MaxVars) - 1}
Var1 == Var(StdVars)
Leaves == Vars \cup {IntT, BoolT}
Terms ==
    Leaves
    \cup {List(a) : a \in Vars}
    \cup {Tuple(<<a, a>>) : a \in Vars \cap {Var1}}
    \cup {Tuple(<<BoolT, IntT>>), Tuple(<<BoolT>>)}

\* An uncaught RecursionError ends the process.
Running == last.status # RecursionError

Outcome(op, t1, t2, status, ret) ==
    [op |-> op, t1 |-> t1, t2 |-> t2, status |-> status, ret |-> ret]

Init ==
    /\ map = NewChecker.u.map
    /\ non_generic_vars = NewChecker.u.non_generic_vars
    /\ fresh = NewChecker.u.fresh
    /\ type_env = NewChecker.env
    /\ last = Outcome("init", None, None, OK, None)
    /\ ctx = NasmGenCtx
    /\ withs = <<>>

FreshVar(non_generic) ==
    /\ Running
    /\ fresh < StdVars + MaxVars
    /\ LET f == fresh_var(U, non_generic) IN
       /\ map' = f.u.map
       /\ non_generic_vars' = f.u.non_generic_vars
       /\ fresh' = f.u.fresh
       /\ last' = Outcome("fresh_var", None, None, OK, f.ret)
    /\ UNCHANGED type_env
    /\ UNCHANGED builder

Unify(t1, t2) ==
    /\ Running
    /\ LET r == unify(U, t1, t2, MaxDepth) IN
       /\ Cardinality(DOMAIN r.u.map) <= MaxElems
       /\ map' = r.u.map
       /\ non_generic_vars' = r.u.non_generic_vars
       /\ last' = Outcome("unify", t1, t2, r.status, None)
    /\ UNCHANGED <<fresh, type_env>>
    /\ UNCHANGED builder

Concretize(t) ==
    /\ Running
    /\ LET c == concretize(map, t, {}) IN
       /\ map' = c.map
       /\ last' = Outcome("concretize", t, None, c.status, c.ret)
    /\ UNCHANGED <<non_generic_vars, fresh, type_env>>
    /\ UNCHANGED builder

Next ==
    \/ FreshVar(FALSE)
    \/ \E t1 \in Terms, t2 \in Terms : Unify(t1, t2)
    \/ \E t \in Terms : Concretize(t)

Spec == Init /\ [][Next]_vars

-----------------------------------------------------------------------------
(* The state machine of type duplication: a client (as in                  *)
(* test_type_duplication.py) makes generic and non-generic variables,      *)
(* unifies variables with each other and with ground types, changes their  *)
(* genericness and duplicates types.                                       *)

DupArgs ==
    Leaves
    \cup {Tuple(<<a, Tuple(<<b, a>>)>>) : a \in Vars, b \in Vars}
    \cup {Tuple(<<IntT, Tuple(<<BoolT, IntT>>)>>)}

MakeNonGeneric(t) ==
    /\ Running
    /\ non_generic_vars' = make_non_generic(non_generic_vars, t)
    /\ last' = Outcome("make_non_generic", t, None, OK, None)
    /\ UNCHANGED <<map, fresh, type_env>>
    /\ UNCHANGED builder

MakeGeneric(v) ==
    /\ Running
    /\ v \in non_generic_vars
    /\ non_generic_vars' = make_generic(non_generic_vars, v)
    /\ last' = Outcome("make_generic", v, None, OK, None)
    /\ UNCHANGED <<map, fresh, type_env>>
    /\ UNCHANGED builder

DuplicateType(t) ==
    /\ Running
    /\ fresh < StdVars + MaxDup
    /\ LET d == duplicate_type(U, t, <<>>) IN
       /\ map' = d.u.map
       /\ non_generic_vars' = d.u.non_generic_vars
       /\ fresh' = d.u.fresh
       /\ last' = Outcome("duplicate_type", t, None, d.status, d.ret)
    /\ UNCHANGED type_env
    /\ UNCHANGED builder

NextDup ==
    \/ \E non_generic \in BOOLEAN : FreshVar(non_generic)
    \/ \E t1 \in Vars, t2 \in Leaves : Unify(t1, t2)
    \/ \E t \in DupArgs \ {IntT, BoolT} : MakeNonGeneric(t)
    \/ \E v \in Vars : MakeGeneric(v)
    \/ \E t \in DupArgs : DuplicateType(t)

SpecDup == Init /\ [][NextDup]_vars

-----------------------------------------------------------------------------
(* The state machine of non-generic propagation: a client (as in           *)
(* test_unification.py and test_type_duplication.py) makes generic and     *)
(* non-generic variables, unifies variables and compound types in both     *)
(* argument orders and makes compound types non-generic.                   *)

NonGenericTerms == {Tuple(<<Var1, IntT, Tuple(<<b>>)>>) : b \in Vars}

NextNonGeneric ==
    \/ \E non_generic \in BOOLEAN : FreshVar(non_generic)
    \/ \E t1 \in Vars, t2 \in Vars \cup NonGenericTerms : Unify(t1, t2)
    \/ \E t1 \in NonGenericTerms, t2 \in Vars : Unify(t1, t2)
    \/ \E t \in NonGenericTerms : MakeNonGeneric(t)

SpecNonGeneric == Init /\ [][NextNonGeneric]_vars

-----------------------------------------------------------------------------
(* The state machine of joins: a client makes up to MaxJoinVars generic    *)
(* and non-generic variables and unifies them with each other and with     *)
(* concrete types in any order, so that trees of different sizes meet.     *)

JoinVars == {Var(i) : i \in StdVars .. fresh - 1}
JoinTerms == JoinVars \cup {IntT, List(BoolT)}

JoinFreshVar(non_generic) ==
    /\ Running
    /\ fresh < StdVars + MaxJoinVars
    /\ LET f == fresh_var(U, non_generic) IN
       /\ map' = f.u.map
       /\ non_generic_vars' = f.u.non_generic_vars
       /\ fresh' = f.u.fresh
       /\ last' = Outcome("fresh_var", None, None, OK, f.ret)
    /\ UNCHANGED type_env
    /\ UNCHANGED builder

NextJoin ==
    \/ \E non_generic \in BOOLEAN : JoinFreshVar(non_generic)
    \/ \E t1 \in JoinTerms, t2 \in JoinTerms : Unify(t1, t2)
    \/ \E t \in JoinVars : Concretize(t)

SpecJoin == Init /\ [][NextJoin]_vars

-----------------------------------------------------------------------------
(* syntax.py: the AST and infer_type.  A node is a tuple that starts with  *)
(* the name of its class.  infer_type takes the Checker `chk` (a record of *)
(* its UnifierSet `u` and its `type_env`) and returns how the call ended,  *)
(* the type returned and the Checker it leaves behind.  The field          *)
(* `last_if` of `chk` is a history: empty, or the local variables of the   *)
(* call of If.infer_type that reached one of its own unify calls last.     *)

Ident(name) == <<"Ident", name>>
Const(value, type) == <<"Const", value, type>>
Lambda(param, body) == <<"Lambda", param, body>>
Call(fn, arg) == <<"Call", fn, arg>>
If(pred, yes, no) == <<"If", pred, yes, no>>
Let(left, right, body) == <<"Let", left, right, body, FALSE>>
LetRec(left, right, body) == <<"Let", left, right, body, TRUE>>
TupleLit(vals) == <<"TupleLit", vals>>
LetStmt(left, right) == <<"LetStmt", left, right, FALSE>>
LetStmtRec(left, right) == <<"LetStmt", left, right, TRUE>>
TopLevelStmts(stmts) == <<"TopLevelStmts", stmts>>

\* parser.bin_op_expr: `expr1 op expr2` becomes two nested calls.
bin_op_expr(expr1, op, expr2) == Call(Call(Ident(op), expr1), expr2)

\* Checker.new_scope: the statement before the yield and the one after it.
new_scope(env) == Append(env, <<>>)
end_scope(env) == SubSeq(env, 1, Len(env) - 1)

\* An exception leaves a call.
Raise(status, chk) == [status |-> status, ret |-> None, chk |-> chk]

\* The locals of If.infer_type when one of its two unify calls has ended.
\* `pred_map` and `branch_map` are the dict before the first and before the
\* second unify call, `end_map` the dict when the call ended.
IfRecord(pred_type, pred_map, yes_type, no_type, branch_map, end_map, status, ret) ==
    [pred_type |-> pred_type, pred_map |-> pred_map, yes_type |-> yes_type,
     no_type |-> no_type, branch_map |-> branch_map, end_map |-> end_map,
     status |-> status, ret |-> ret]

RECURSIVE infer_type(_, _)
RECURSIVE infer_vals(_, _, _)
RECURSIVE infer_stmts(_, _, _)

\* A method is written as a chain of operators, one per step, each taking
\* the outcomes of the steps before it; the chain reads from the method's
\* operator (the last of the group) upwards.

\* `return checker.unifiers.concretize(...)`, where `c` is that call's outcome.
Concretized(chk, c) ==
    [status |-> c.status, ret |-> c.ret, chk |-> [chk EXCEPT !.u.map = c.map]]

\* Ident.infer_type: look the name up, then duplicate its type.
Ident_duplicated(chk, d) ==
    [status |-> d.status, ret |-> d.ret, chk |-> [chk EXCEPT !.u = d.u]]

Ident_found(chk, t) ==
    IF t.status # OK THEN Raise(t.status, chk)
    ELSE Ident_duplicated(chk, duplicate_type(chk.u, t.ret, <<>>))

infer_Ident(chk, node) == Ident_found(chk, env_get(chk.type_env, node[2]))

\* Const.infer_type: the property `type` concretizes the declared type.
infer_Const(chk, node) == Concretized(chk, concretize(chk.u.map, node[3], {}))

\* Lambda.infer_type.  The two context managers have no try/finally: when
\* the body raises, the scope and the non-generic variable stay.
Lambda_concretized(body_type, after, c) ==
    IF c.status # OK THEN Raise(c.status, [after EXCEPT !.u.map = c.map])
    ELSE [status |-> OK, ret |-> Fn(c.ret, body_type.ret),
          chk |-> [after EXCEPT !.u.map = c.map]]

Lambda_left(arg_type, body_type, after) ==
    Lambda_concretized(body_type, after, concretize(after.u.map, arg_type, {}))

Lambda_body(arg_type, body_type) ==
    IF body_type.status # OK THEN body_type
    ELSE Lambda_left(arg_type, body_type,
                     [body_type.chk EXCEPT
                         !.u.non_generic_vars = make_generic(@, arg_type),
                         !.type_env = end_scope(@)])

Lambda_entered(chk, node, arg_type) ==
    Lambda_body(arg_type.ret,
                infer_type([chk EXCEPT !.u = arg_type.u,
                                !.type_env = env_set(new_scope(@), node[2][2], arg_type.ret)],
                           node[3]))

infer_Lambda(chk, node) == Lambda_entered(chk, node, fresh_var(chk.u, TRUE))

\* Call.infer_type: the argument first, then beta, then the function.
Call_unified(chk, beta, un) ==
    IF un.status # OK THEN Raise(un.status, [chk EXCEPT !.u = un.u])
    ELSE Concretized([chk EXCEPT !.u = un.u], concretize(un.u.map, beta, {}))

Call_fn(fn_type_joiner, beta, fn_type) ==
    IF fn_type.status # OK THEN fn_type
    ELSE Call_unified(fn_type.chk, beta,
                      unify(fn_type.chk.u, fn_type.ret, fn_type_joiner, MaxDepth))

Call_beta(node, arg_type, beta) ==
    Call_fn(Fn(arg_type.ret, beta.ret), beta.ret,
            infer_type([arg_type.chk EXCEPT !.u = beta.u], node[2]))

Call_arg(node, arg_type) ==
    IF arg_type.status # OK THEN arg_type
    ELSE Call_beta(node, arg_type, fresh_var(arg_type.chk.u, FALSE))

infer_Call(chk, node) == Call_arg(node, infer_type(chk, node[3]))

\* If.infer_type
If_concretized(pred_type, yes_type, no_type, u, c) ==
    [status |-> c.status, ret |-> c.ret,
     chk |-> [no_type.chk EXCEPT
                 !.u = [u EXCEPT !.map = c.map],
                 !.last_if = <<IfRecord(pred_type.ret, pred_type.chk.u.map, yes_type.ret,
                                        no_type.ret, no_type.chk.u.map, c.map,
                                        c.status, c.ret)>>]]

If_branches_unified(pred_type, yes_type, no_type, ub) ==
    IF ub.status # OK
    THEN Raise(ub.status,
               [no_type.chk EXCEPT
                   !.u = ub.u,
                   !.last_if = <<IfRecord(pred_type.ret, pred_type.chk.u.map, yes_type.ret,
                                          no_type.ret, no_type.chk.u.map, ub.u.map,
                                          ub.status, None)>>])
    ELSE If_concretized(pred_type, yes_type, no_type, ub.u,
                        concretize(ub.u.map, yes_type.ret, {}))

If_no(pred_type, yes_type, no_type) ==
    IF no_type.status # OK THEN no_type
    ELSE If_branches_unified(pred_type, yes_type, no_type,
                             unify(no_type.chk.u, yes_type.ret, no_type.ret, MaxDepth))

If_yes(node, pred_type, yes_type) ==
    IF yes_type.status # OK THEN yes_type
    ELSE If_no(pred_type, yes_type, infer_type(yes_type.chk, node[4]))

If_pred_unified(node, pred_type, up) ==
    IF up.status # OK
    THEN Raise(up.status,
               [pred_type.chk EXCEPT
                   !.u = up.u,
                   !.last_if = <<IfRecord(pred_type.ret, pred_type.chk.u.map, None, None,
                                          <<>>, up.u.map, up.status, None)>>])
    ELSE If_yes(node, pred_type, infer_type([pred_type.chk EXCEPT !.u = up.u], node[3]))

If_pred(node, pred_type) ==
    IF pred_type.status # OK THEN pred_type
    ELSE If_pred_unified(node, pred_type,
                         unify(pred_type.chk.u, pred_type.ret, BoolT, MaxDepth))

infer_If(chk, node) == If_pred(node, infer_type(chk, node[2]))

\* What Let.infer_type and LetStmt.infer_type share: bind `left` to a
\* variable that is non-generic while `right` is inferred, then unify.
Binding_unified(after, un) ==
    [status |-> un.status, ret |-> None, chk |-> [after EXCEPT !.u = un.u]]

Binding_generic(alpha, right_type, after) ==
    Binding_unified(after, unify(after.u, alpha, right_type.ret, MaxDepth))

Binding_right(alpha, right_type) ==
    IF right_type.status # OK THEN right_type
    ELSE Binding_generic(alpha, right_type,
                         [right_type.chk EXCEPT
                             !.u.non_generic_vars = make_generic(@, alpha)])

Binding_left(alpha, right, left_type) ==
    IF left_type.status # OK THEN left_type
    ELSE Binding_right(alpha, infer_type(left_type.chk, right))

Binding_alpha(chk, left, right, alpha) ==
    Binding_left(alpha.ret, right,
                 infer_type([chk EXCEPT !.u = alpha.u,
                                 !.type_env = env_set(@, left[2], alpha.ret)],
                            left))

infer_binding(chk, left, right) == Binding_alpha(chk, left, right, fresh_var(chk.u, TRUE))

\* Let.infer_type: the scope ends when the body has returned.
Let_body(body) ==
    IF body.status # OK THEN body
    ELSE [body EXCEPT !.chk.type_env = end_scope(@)]

Let_bound(node, binding) ==
    IF binding.status # OK THEN binding
    ELSE Let_body(infer_type(binding.chk, node[4]))

infer_Let(chk, node) ==
    Let_bound(node, infer_binding([chk EXCEPT !.type_env = new_scope(@)], node[2], node[3]))

\* TupleLit.infer_type: the components from left to right.
Vals_rest(v, rest) ==
    IF rest.status # OK THEN rest
    ELSE [status |-> OK, ret |-> <<v.ret>> \o rest.ret, chk |-> rest.chk]

Vals_first(vals, i, v) ==
    IF v.status # OK THEN v
    ELSE Vals_rest(v, infer_vals(v.chk, vals, i + 1))

infer_vals(chk, vals, i) ==
    IF i > Len(vals) THEN [status |-> OK, ret |-> <<>>, chk |-> chk]
    ELSE Vals_first(vals, i, infer_type(chk, vals[i]))

TupleLit_components(components) ==
    IF components.status # OK THEN components
    ELSE [components EXCEPT !.ret = Tuple(@)]

infer_TupleLit(chk, node) == TupleLit_components(infer_vals(chk, node[2], 1))

\* LetStmt.infer_type: the binding is made in the current scope.
LetStmt_bound(binding) ==
    IF binding.status # OK THEN binding
    ELSE [binding EXCEPT !.ret = UnitT]

infer_LetStmt(chk, node) == LetStmt_bound(infer_binding(chk, node[2], node[3]))

\* TopLevelStmts.infer_type
Stmts_next(stmts, i, stmt) ==
    IF stmt.status # OK THEN stmt
    ELSE infer_stmts(stmt.chk, stmts, i + 1)

infer_stmts(chk, stmts, i) ==
    IF i > Len(stmts) THEN [status |-> OK, ret |-> UnitT, chk |-> chk]
    ELSE Stmts_next(stmts, i, infer_type(chk, stmts[i]))

\* AstNode.cache_type: when the method it wraps returns, `self._type = ret`.
\* `cached` is the history of these assignments: the node and the type.
cache_type(node, r) ==
    IF r.status = OK THEN [r EXCEPT !.chk.cached = Append(@, <<node, r.ret>>)] ELSE r

\* AstNode.infer_type: dispatch on the class of the node.  Every class but
\* TupleLit decorates its infer_type with cache_type.
infer_type(chk, node) ==
    CASE node[1] = "Ident" -> cache_type(node, infer_Ident(chk, node))
      [] node[1] = "Const" -> cache_type(node, infer_Const(chk, node))
      [] node[1] = "Lambda" -> cache_type(node, infer_Lambda(chk, node))
      [] node[1] = "Call" -> cache_type(node, infer_Call(chk, node))
      [] node[1] = "If" -> cache_type(node, infer_If(chk, node))
      [] node[1] = "Let" -> cache_type(node, infer_Let(chk, node))
      [] node[1] = "TupleLit" -> infer_TupleLit(chk, node)
      [] node[1] = "LetStmt" -> cache_type(node, infer_LetStmt(chk, node))
      [] node[1] = "TopLevelStmts" -> cache_type(node, infer_stmts(chk, node[2], 1))

\* AstNode.type of a node whose `_type` was assigned last at position i of
\* the history, or never (i = 0).
type_cached(cached, m, i) ==
    IF i = 0 THEN [status |-> AttributeError, ret |-> None, map |-> m]
    ELSE concretize(m, cached[i][2], {})

type(cached, m, node) ==
    type_cached(cached, m,
                IF \E i \in DOMAIN cached : cached[i][1] = node
                THEN CHOOSE i \in DOMAIN cached :
                       /\ cached[i][1] = node
                       /\ \A j \in DOMAIN cached : cached[j][1] = node => j <= i
                ELSE 0)

-----------------------------------------------------------------------------
(* syntax.py: captures.  The result is a set of Ident nodes; two Ident     *)
(* nodes are equal when their names are.                                   *)

RECURSIVE captures(_)

captures_Ident(node) == {node}

captures_Const(node) == {}

captures_Lambda(node) == captures(node[3]) \ {node[2]}

captures_Call(node) == captures(node[2]) \cup captures(node[3])

captures_If(node) == captures(node[2]) \cup captures(node[3]) \cup captures(node[4])

captures_Let(node) == (captures(node[4]) \cup captures(node[3])) \ {node[2]}

captures_TupleLit(node) == UNION {captures(node[2][i]) : i \in DOMAIN node[2]}

\* A LetStmt that subtracts nothing from the captures of its right side.
captures_LetStmt_with_left(node) == captures(node[3])

captures_LetStmt(node) == captures(node[3]) \ {node[2]}

captures_TopLevelStmts(node) == UNION {captures(node[2][i]) : i \in DOMAIN node[2]}

captures(node) ==
    CASE node[1] = "Ident" -> captures_Ident(node)
      [] node[1] = "Const" -> captures_Const(node)
      [] node[1] = "Lambda" -> captures_Lambda(node)
      [] node[1] = "Call" -> captures_Call(node)
      [] node[1] = "If" -> captures_If(node)
      [] node[1] = "Let" -> captures_Let(node)
      [] node[1] = "TupleLit" -> captures_TupleLit(node)
      [] node[1] = "LetStmt" -> captures_LetStmt(node)
      [] node[1] = "TopLevelStmts" -> captures_TopLevelStmts(node)

-----------------------------------------------------------------------------
(* syntax.py: to_lir, the lowering of a type-checked AST into the builder  *)
(* context.  to_lir(c, ty, order, node) is the outcome of                  *)
(* `node.to_lir(ctx)` in the context c: the status, the value returned and *)
(* the context left behind.  `ty` holds what AstNode.type reads: the       *)
(* history of the cached types and the dict of the unifier.  `order` is    *)
(* the order in which the sets of this run are iterated: a sequence of     *)
(* Ident nodes, and list(s) is the elements of s in that order.  An        *)
(* exception leaves the context as it is where it is raised: the           *)
(* with-blocks it passes restore nothing.                                  *)

RECURSIVE to_lir(_, _, _, _)
RECURSIVE to_lir_all(_, _, _, _, _)

Lowered(c, ret) == [status |-> OK, ret |-> ret, ctx |-> c]
Failed(status, c) == [status |-> status, ret |-> None, ctx |-> c]

\* `list(self.captures())`
list(order, s) == SelectSeq(order, LAMBDA ident : ident \in s)

\* Indices that count from one.
capture_indices_from_one(capture_list) ==
    [name \in {capture_list[i][2] : i \in DOMAIN capture_list} |->
        CHOOSE i \in DOMAIN capture_list : capture_list[i][2] = name]

\* `{ident.name: index for index, ident in enumerate(capture_list)}`
capture_indices_of(capture_list) ==
    [name \in {capture_list[i][2] : i \in DOMAIN capture_list} |->
        (CHOOSE i \in DOMAIN capture_list :
            /\ capture_list[i][2] = name
            /\ \A j \in DOMAIN capture_list : capture_list[j][2] = name => j <= i) - 1]

\* Ident.to_lir
Ident_lir_allocated(c, node, tmp) ==
    IF node[2] \in DOMAIN c.captured_names
    THEN Lowered(add_instr(tmp.ctx, EnvLookup(c.captured_names[node[2]], tmp.ret, <<node[2]>>)),
                 tmp.ret)
    ELSE Failed(KeyError, tmp.ctx)

to_lir_Ident(c, node) ==
    IF node[2] \in DOMAIN c.dicts[c.local_names]
    THEN Lowered(c, c.dicts[c.local_names][node[2]])
    ELSE Ident_lir_allocated(c, node, new_temp64(c))

\* Const.to_lir
Const_lir_typed(c, node, t) ==
    IF t.status # OK THEN Failed(t.status, c)
    ELSE IF t.ret = IntT THEN Lowered(c, I64(node[2]))
    ELSE Failed(NotImplementedError, c)

to_lir_Const(c, ty, node) == Const_lir_typed(c, node, type(ty.cached, ty.map, node))

\* `[v.to_lir(ctx) for v in nodes]` from position i on
All_lir_rest(first, rest) ==
    IF rest.status # OK THEN rest
    ELSE Lowered(rest.ctx, <<first.ret>> \o rest.ret)

All_lir_first(ty, order, nodes, i, first) ==
    IF first.status # OK THEN first
    ELSE All_lir_rest(first, to_lir_all(first.ctx, ty, order, nodes, i + 1))

to_lir_all(c, ty, order, nodes, i) ==
    IF i > Len(nodes) THEN Lowered(c, <<>>)
    ELSE All_lir_first(ty, order, nodes, i, to_lir(c, ty, order, nodes[i]))

\* `with ctx.new_fn_def(name, capture_indices) as (lbl, param_tmp):` around
\* the lowering of the body of the function `fn`, as in Lambda.to_lir,
\* Let.to_lir and LetStmt.to_lir; the value is the label.
FnDef_lir_returned(body) ==
    IF body.status # OK THEN body
    ELSE Lowered(add_instr(body.ctx, Return(body.ret)), None)

FnDef_lir_body(ty, order, fn, entered) ==
    FnDef_lir_returned(to_lir(set_local_name(entered.ctx, fn[2][2], entered.ret[2]),
                              ty, order, fn[3]))

FnDef_lir_left(c, entered, body) ==
    IF body.status # OK THEN body
    ELSE Lowered(with_exit(body.ctx, Suspended(c)), entered.ret[1])

FnDef_lir_entered(c, ty, order, fn, entered) ==
    FnDef_lir_left(c, entered, FnDef_lir_body(ty, order, fn, entered))

to_lir_fn_def(c, ty, order, custom_fn_name, capture_indices, fn) ==
    FnDef_lir_entered(c, ty, order, fn, new_fn_def_enter(c, custom_fn_name, capture_indices))

\* `tmp = ctx.new_temp64()`, `ctx.local_names[...] = tmp` where `named` holds
\* a name, and `ctx.add_instr(lir.CreateClosure(...))`
Closure_lir_allocated(lbl, capture_values, recursive, named, tmp) ==
    Lowered(add_instr(IF named = <<>> THEN tmp.ctx
                      ELSE set_local_name(tmp.ctx, named[1], tmp.ret),
                      CreateClosure(lbl, capture_values, tmp.ret, recursive)),
            tmp.ret)

Closure_lir(lbl, capture_values, recursive, named) ==
    IF lbl.status # OK THEN lbl
    ELSE Closure_lir_allocated(lbl.ret, capture_values, recursive, named,
                               new_temp64(lbl.ctx))

\* Lambda.to_lir
Lambda_lir_captured(ty, order, node, capture_list, capture_values) ==
    IF capture_values.status # OK THEN capture_values
    ELSE Closure_lir(to_lir_fn_def(capture_values.ctx, ty, order, <<"lambda$">>,
                                   capture_indices_of(capture_list), node),
                     capture_values.ret, FALSE, <<>>)

Lambda_lir_listed(c, ty, order, node, capture_list) ==
    Lambda_lir_captured(ty, order, node, capture_list,
                        to_lir_all(c, ty, order, capture_list, 1))

to_lir_Lambda(c, ty, order, node) ==
    Lambda_lir_listed(c, ty, order, node, list(order, captures(node)))

\* Call.to_lir
Call_lir_fn(ret, arg_tmp, fn_tmp) ==
    IF fn_tmp.status # OK THEN fn_tmp
    ELSE IF fn_tmp.ret[1] # "Temp64" THEN Failed(ValueError, fn_tmp.ctx)
    ELSE Lowered(add_instr(fn_tmp.ctx, CallClosure(fn_tmp.ret, arg_tmp, ret)), ret)

Call_lir_arg(ty, order, node, ret, arg_tmp) ==
    IF arg_tmp.status # OK THEN arg_tmp
    ELSE Call_lir_fn(ret, arg_tmp.ret, to_lir(arg_tmp.ctx, ty, order, node[2]))

Call_lir_ret(ty, order, node, ret) ==
    Call_lir_arg(ty, order, node, ret.ret, to_lir(ret.ctx, ty, order, node[3]))

Call_lir_typed(c, ty, order, node, t) ==
    IF t.status # OK THEN Failed(t.status, c)
    ELSE Call_lir_ret(ty, order, node,
                      IF t.ret # UnitT THEN new_temp64(c) ELSE [ret |-> Temp0, ctx |-> c])

to_lir_Call(c, ty, order, node) ==
    Call_lir_typed(c, ty, order, node, type(ty.cached, ty.map, node))

\* If.to_lir
If_lir_no(ret, end_lbl, no_ret) ==
    IF no_ret.status # OK THEN no_ret
    ELSE Lowered(add_instr(add_instr(no_ret.ctx, Assign(ret, no_ret.ret)),
                           LabelInstr(end_lbl)),
                 ret)

If_lir_yes(ty, order, node, ret, else_lbl, end_lbl, yes_ret) ==
    IF yes_ret.status # OK THEN yes_ret
    ELSE If_lir_no(ret, end_lbl,
                   to_lir(add_instr(add_instrs(yes_ret.ctx,
                                               <<Assign(ret, yes_ret.ret), Goto(end_lbl)>>),
                                    LabelInstr(else_lbl)),
                          ty, order, node[4]))

If_lir_end_lbl(ty, order, node, ret, pred_tmp, else_lbl, end_lbl) ==
    If_lir_yes(ty, order, node, ret, else_lbl, end_lbl.ret,
               to_lir(add_instr(end_lbl.ctx, IfFalse(pred_tmp, else_lbl)),
                      ty, order, node[3]))

If_lir_else_lbl(ty, order, node, ret, pred_tmp, else_lbl) ==
    If_lir_end_lbl(ty, order, node, ret, pred_tmp, else_lbl.ret,
                   new_label(else_lbl.ctx, <<>>))

If_lir_pred(ty, order, node, ret, pred_tmp) ==
    IF pred_tmp.status # OK THEN pred_tmp
    ELSE If_lir_else_lbl(ty, order, node, ret, pred_tmp.ret, new_label(pred_tmp.ctx, <<>>))

If_lir_ret(ty, order, node, ret) ==
    If_lir_pred(ty, order, node, ret.ret, to_lir(ret.ctx, ty, order, node[2]))

to_lir_If(c, ty, order, node) == If_lir_ret(ty, order, node, new_temp64(c))

\* Let.to_lir
Let_lir_bound(ty, order, node, bound) ==
    IF bound.status # OK THEN bound
    ELSE to_lir(bound.ctx, ty, order, node[4])

Let_lir_right(node, right) ==
    IF right.status # OK THEN right
    ELSE Lowered(set_local_name(right.ctx, node[2][2], right.ret), right.ret)

to_lir_Let(c, ty, order, node) ==
    Let_lir_bound(ty, order, node,
                  IF node[3][1] = "Lambda"
                  THEN Closure_lir(to_lir_fn_def(c, ty, order, <<node[2][2]>>, <<>>, node[3]),
                                   <<>>, node[5], <<node[2][2]>>)
                  ELSE Let_lir_right(node, to_lir(c, ty, order, node[3])))

\* TupleLit.to_lir
TupleLit_lir_vals(res, tmps) ==
    IF tmps.status # OK THEN tmps
    ELSE Lowered(add_instr(tmps.ctx,
                           CreateTuple(SelectSeq(tmps.ret, LAMBDA tmp : tmp # Temp0), res)),
                 res)

TupleLit_lir_res(ty, order, node, res) ==
    TupleLit_lir_vals(res.ret, to_lir_all(res.ctx, ty, order, node[2], 1))

to_lir_TupleLit(c, ty, order, node) == TupleLit_lir_res(ty, order, node, new_temp64(c))

\* LetStmt.to_lir
LetStmt_lir_done(bound) == IF bound.status # OK THEN bound ELSE Lowered(bound.ctx, Temp0)

LetStmt_lir_captured(ty, order, node, capture_list, capture_values) ==
    IF capture_values.status # OK THEN capture_values
    ELSE Closure_lir(to_lir_fn_def(capture_values.ctx, ty, order, <<node[2][2]>>,
                                   capture_indices_of((IF node[4] THEN <<node[2]>> ELSE <<>>)
                                                      \o capture_list),
                                   node[3]),
                     capture_values.ret, node[4], <<node[2][2]>>)

LetStmt_lir_listed(c, ty, order, node, capture_list) ==
    LetStmt_lir_captured(ty, order, node, capture_list,
                         to_lir_all(c, ty, order, capture_list, 1))

to_lir_LetStmt(c, ty, order, node) ==
    LetStmt_lir_done(IF node[3][1] = "Lambda"
                     THEN LetStmt_lir_listed(c, ty, order, node,
                                             list(order, captures(node)))
                     ELSE Let_lir_right(node, to_lir(c, ty, order, node[3])))

\* TopLevelStmts.to_lir
to_lir_TopLevelStmts(c, ty, order, node) ==
    LetStmt_lir_done(to_lir_all(c, ty, order, node[2], 1))

to_lir(c, ty, order, node) ==
    CASE node[1] = "Ident" -> to_lir_Ident(c, node)
      [] node[1] = "Const" -> to_lir_Const(c, ty, node)
      [] node[1] = "Lambda" -> to_lir_Lambda(c, ty, order, node)
      [] node[1] = "Call" -> to_lir_Call(c, ty, order, node)
      [] node[1] = "If" -> to_lir_If(c, ty, order, node)
      [] node[1] = "Let" -> to_lir_Let(c, ty, order, node)
      [] node[1] = "TupleLit" -> to_lir_TupleLit(c, ty, order, node)
      [] node[1] = "LetStmt" -> to_lir_LetStmt(c, ty, order, node)
      [] node[1] = "TopLevelStmts" -> to_lir_TopLevelStmts(c, ty, order, node)

-----------------------------------------------------------------------------
(* gen_ctx.py new_prelude_fn_def and prelude/__init__.py: the functions    *)
(* the prelude defines, each with its closure created in main.             *)

\* new_prelude_fn_def after its `yield`: the with-block of new_fn_def ends,
\* then `with self.inside_main():` allocates the closure in main, binds
\* fn_name to it and appends the CreateClosure to the body of main.
Prelude_closure(suspended, fn_name, lbl, tmp) ==
    with_exit([set_local_name(tmp.ctx, fn_name, tmp.ret)
                 EXCEPT !.fns[tmp.ctx.main_fn_def].body =
                            Append(@, CreateClosure(lbl, <<>>, tmp.ret, FALSE))],
              suspended)

Prelude_left(left, fn_name, lbl) ==
    Prelude_closure(Suspended(left), fn_name, lbl, new_temp64(inside_main_enter(left)))

new_prelude_fn_def_exit(c, suspended, fn_name, lbl) ==
    Prelude_left(with_exit(c, suspended), fn_name, lbl)

\* `with ctx.new_prelude_fn_def(fn_name, fn_lbl_name) as (lbl, param):` around
\* the add_instr of a Nasm instruction whose lines hold
\* `param.to_nasm_val(ctx)`; `operand` is the outcome of that call.
Prelude_operand(c, fn_name, description, entered, operand) ==
    IF operand.status # OK THEN Failed(operand.status, entered.ctx)
    ELSE Lowered(new_prelude_fn_def_exit(add_instr(entered.ctx, Nasm(description)),
                                         Suspended(c), fn_name, entered.ret[1]),
                 None)

Prelude_entered(c, fn_name, description, entered) ==
    Prelude_operand(c, fn_name, description, entered,
                    to_nasm_val(entered.ctx, entered.ret[2]))

prelude_fn(c, fn_name, fn_lbl_name, description) ==
    Prelude_entered(c, fn_name, description, new_fn_def_enter(c, <<fn_lbl_name>>, <<>>))

\* The format string of print_int: its label and the static.
StaticByteArray(label) == <<"StaticByteArray", label>>

print_int_fmt_str(l) == [l.ctx EXCEPT !.statics = Append(@, StaticByteArray(l.ret))]

\* prelude.new_curried_bin_op
BinOp_outer_closed(c, name, outer, closure_ret) ==
    Lowered(new_prelude_fn_def_exit(
                add_instrs(closure_ret.ctx,
                           <<CreateClosure(outer.inner_lbl, <<outer.ret[2]>>,
                                           closure_ret.ret, FALSE),
                             Return(closure_ret.ret)>>),
                Suspended(c), name, outer.ret[1]),
            None)

BinOp_inner_left(c, name, outer, left) ==
    BinOp_outer_closed(c, name, outer, new_temp64(left))

BinOp_inner_ret(c, name, operation, outer, inner, x_local, ret) ==
    BinOp_inner_left(c, name, [outer EXCEPT !.inner_lbl = inner.ret[1]],
        new_prelude_fn_def_exit(
            add_instrs(ret.ctx,
                       <<EnvLookup(0, x_local, <<>>),
                         Intrinsic(operation, x_local, inner.ret[2], ret.ret),
                         Return(ret.ret)>>),
            Suspended(outer.ctx), name \o "$arg2", inner.ret[1]))

BinOp_inner_x_local(c, name, operation, outer, inner, x_local) ==
    BinOp_inner_ret(c, name, operation, outer, inner, x_local.ret, new_temp64(x_local.ctx))

BinOp_inner(c, name, operation, outer, inner) ==
    BinOp_inner_x_local(c, name, operation, outer, inner, new_temp64(inner.ctx))

BinOp_outer(c, name, label_name, operation, outer) ==
    BinOp_inner(c, name, operation, [outer EXCEPT !.inner_lbl = None],
                new_fn_def_enter(outer.ctx, <<label_name \o "$arg2">>, <<>>))

new_curried_bin_op(c, name, label_name, operation) ==
    BinOp_outer(c, name, label_name, operation,
                [inner_lbl |-> None] @@ new_fn_def_enter(c, <<label_name>>, <<>>))

\* prelude.add_to_ctx: the calls are made in order, each in the context the
\* one before it left, and an exception ends them.
CurriedBinOps ==
    <<<<"+", "_$plus", "Add">>, <<"-", "_$minus", "Sub">>, <<"*", "_$times", "Mul">>,
      <<"div", "_$divide", "Div">>, <<"mod", "_$modulo", "Mod">>,
      <<"=", "_$int_is_equal", "EqI64">>>>

RECURSIVE AddToCtx_bin_ops(_, _)
AddToCtx_bin_ops(r, i) ==
    IF r.status # OK \/ i > Len(CurriedBinOps) THEN r
    ELSE AddToCtx_bin_ops(new_curried_bin_op(r.ctx, CurriedBinOps[i][1],
                                             CurriedBinOps[i][2], CurriedBinOps[i][3]),
                          i + 1)

AddToCtx_exit(r) ==
    IF r.status # OK THEN r
    ELSE AddToCtx_bin_ops(prelude_fn(print_int_fmt_str(new_label(r.ctx,
                                                                 <<"_$print_int_fmt_str">>)),
                                     "print_int", "_$print_int", "PrintInt"),
                          1)

add_to_ctx(c) == AddToCtx_exit(prelude_fn(c, "exit", "_$exit", "Exit"))

-----------------------------------------------------------------------------
(* The state machine of the REPL (semantics/__main__.py): one Checker is   *)
(* made, then every input is parsed, its type is inferred with that        *)
(* Checker and printed.  UnificationError and EnvKeyError are caught and   *)
(* the loop goes on; any other exception ends the process.  The inputs are *)
(* the ASTs of the programs of test_inference.py and their variations.     *)

F == Ident("f")
G == Ident("g")
X == Ident("x")
Y == Ident("y")
Three == Const("3", IntT)
Twelve == Const("12", IntT)
True == Const("true", BoolT)
Literals == {Three, True}
Args == Literals \cup {Ident("succ")}

\* `(f a, f b)` and `pair (f a) (f b)`
Uses(a, b) ==
    {TupleLit(<<Call(F, a), Call(F, b)>>),
     Call(Call(Ident("pair"), Call(F, a)), Call(F, b))}

\* `let f = fun x -> x in <uses>` (test_complex_let, test_parser_let)
LetPrograms == UNION {{Let(F, Lambda(X, X), body) : body \in Uses(a, b)} : a \in Args, b \in Args}

\* `fun f -> <uses>` (test_bad_application)
LambdaPrograms == UNION {{Lambda(F, body) : body \in Uses(a, b)} : a \in Args, b \in Args}

\* `fun f -> f 3`, and a let that binds it and uses it at two types
ClosedFunction == Lambda(F, Call(F, Three))
ClosedFunctionUsedTwice ==
    Let(G, ClosedFunction,
        Call(Call(Ident("pair"), Call(G, Ident("succ"))), Call(G, Ident("zero"))))

\* `3 op 12` as the parser builds it, and the program of test_statements
BinOps == {"+", "-", "*", "div", "mod", "="}
BinOpPrograms == {bin_op_expr(Three, op, Twelve) : op \in BinOps}
Statements ==
    TopLevelStmts(<<LetStmt(F, Lambda(X, bin_op_expr(X, "+", Twelve))),
                    LetStmt(Y, Call(F, Twelve))>>)

\* `if p then y else n` over literals, and conditionals on two parameters
InnerIf == If(True, X, Y)
IfPrograms ==
    {If(p, y, n) : p \in Literals, y \in Literals, n \in Literals}
    \cup {Lambda(X, Lambda(Y, body)) : body \in
            {If(True, X, InnerIf),
             If(True, TupleLit(<<X, Three>>), TupleLit(<<InnerIf, True>>)),
             If(True, TupleLit(<<X, X, Three>>), TupleLit(<<InnerIf, Y, True>>)),
             If(X, Three, Y)}}

Programs ==
    LetPrograms \cup LambdaPrograms \cup {ClosedFunction, ClosedFunctionUsedTwice}
    \cup BinOpPrograms \cup {Statements} \cup IfPrograms
    \cup {LetStmt(F, Lambda(X, X)), LetStmt(Y, Call(F, Twelve)), Y}

\* The Checker of the current state, with an empty history.
Chk == [u |-> U, type_env |-> type_env, last_if |-> <<>>, cached |-> <<>>]

\* One turn of the loop: `t = ast.infer_type(checker)`, then
\* `t = checker.unifiers.concretize(t)`; `r` and `t` are their outcomes.
Infer_printed(ast, r, t) ==
    /\ map' = t.map
    /\ non_generic_vars' = r.chk.u.non_generic_vars
    /\ fresh' = r.chk.u.fresh
    /\ type_env' = r.chk.type_env
    /\ last' = [op |-> "infer_type", t1 |-> ast, t2 |-> r.ret, status |-> t.status,
                ret |-> t.ret, last_if |-> r.chk.last_if, cached |-> r.chk.cached]
    /\ UNCHANGED builder

Infer_inferred(ast, r) ==
    Infer_printed(ast, r,
                  IF r.status = OK THEN concretize(r.chk.u.map, r.ret, {})
                  ELSE [status |-> r.status, ret |-> None, map |-> r.chk.u.map])

Infer(ast) ==
    /\ Running
    /\ fresh < MaxFresh
    /\ Infer_inferred(ast, infer_type(Chk, ast))

NextInfer == \E ast \in Programs : Infer(ast)

SpecInfer == Init /\ [][NextInfer]_vars

-----------------------------------------------------------------------------
(* The state machine of the builder context: a client (as in               *)
(* test_lir_to_nasm.py, prelude/__init__.py and the to_lir methods of      *)
(* syntax.py) opens with-blocks with new_fn_def and inside_main, allocates *)
(* temporaries, binds local names and adds instructions inside them.  A    *)
(* with-block ends when its body ends, and then the context manager runs   *)
(* on from its `yield`, or when an exception leaves its body: the          *)
(* exception is raised at the `yield` of the context manager, which        *)
(* handles none, and goes on to the enclosing with-blocks until it is      *)
(* caught.                                                                 *)

BuilderCaptures == {<<>>, "x" :> 0}

NewFnDef(custom_fn_name, capture_indices) ==
    /\ Len(ctx.fns) < MaxFns
    /\ withs' = Append(withs, Suspended(ctx))
    /\ ctx' = new_fn_def_enter(ctx, custom_fn_name, capture_indices).ctx
    /\ UNCHANGED <<checker, last>>

InsideMain ==
    /\ Len(withs) < MaxWiths
    /\ withs' = Append(withs, Suspended(ctx))
    /\ ctx' = inside_main_enter(ctx)
    /\ UNCHANGED <<checker, last>>

\* The body of the innermost with-block ends.
LeaveWith ==
    /\ withs # <<>>
    /\ ctx' = with_exit(ctx, withs[Len(withs)])
    /\ withs' = SubSeq(withs, 1, Len(withs) - 1)
    /\ UNCHANGED <<checker, last>>

\* An exception is raised in the body of the innermost with-block and is
\* caught outside the n innermost with-blocks.
RaiseInWith(n) ==
    /\ withs' = SubSeq(withs, 1, Len(withs) - n)
    /\ UNCHANGED <<checker, last, ctx>>

NewTemp64 ==
    /\ ctx.fns[ctx.current_fn].next_temp_id < MaxTemps
    /\ ctx' = new_temp64(ctx).ctx
    /\ UNCHANGED <<checker, last, withs>>

AddInstr(instr) ==
    /\ Len(ctx.fns[ctx.current_fn].body) < MaxBody
    /\ ctx' = add_instr(ctx, instr)
    /\ UNCHANGED <<checker, last, withs>>

SetLocalName(name, value) ==
    /\ ctx' = set_local_name(ctx, name, value)
    /\ UNCHANGED <<checker, last, withs>>

NextBuilder ==
    \/ \E capture_indices \in BuilderCaptures : NewFnDef(<<"f">>, capture_indices)
    \/ InsideMain
    \/ LeaveWith
    \/ \E n \in 1 .. Len(withs) : RaiseInWith(n)
    \/ NewTemp64
    \/ AddInstr(Return(Temp64(PARAM_ID)))
    \/ SetLocalName("x", Temp64(PARAM_ID))

SpecBuilder == Init /\ [][NextBuilder]_vars

-----------------------------------------------------------------------------
(* The state machine of the scoped environment: a client (as the           *)
(* infer_type methods do, and the doctest of Checker.new_scope) opens and  *)
(* closes scopes of one Checker, binds names in its type_env and looks     *)
(* names up.                                                               *)

EnvKeys == {"x", "succ"}
EnvValues == {IntT, BoolT}

NewScope ==
    /\ Len(type_env) < MaxScopes
    /\ type_env' = new_scope(type_env)
    /\ last' = Outcome("new_scope", None, None, OK, None)
    /\ UNCHANGED <<map, non_generic_vars, fresh, builder>>

EndScope ==
    /\ Len(type_env) > 1
    /\ type_env' = end_scope(type_env)
    /\ last' = Outcome("end_scope", None, None, OK, None)
    /\ UNCHANGED <<map, non_generic_vars, fresh, builder>>

SetItem(key, value) ==
    /\ type_env' = env_set(type_env, key, value)
    /\ last' = Outcome("setitem", Ident(key), value, OK, None)
    /\ UNCHANGED <<map, non_generic_vars, fresh, builder>>

GetItem_found(key, r) ==
    /\ last' = Outcome("getitem", Ident(key), None, r.status, r.ret)
    /\ UNCHANGED <<checker, builder>>

GetItem(key) == GetItem_found(key, env_get(type_env, key))

NextEnv ==
    \/ NewScope
    \/ EndScope
    \/ \E key \in EnvKeys, value \in EnvValues : SetItem(key, value)
    \/ \E key \in EnvKeys : GetItem(key)

SpecEnv == Init /\ [][NextEnv]_vars

-----------------------------------------------------------------------------
(* The state machine of capture analysis: a client (as in                  *)
(* test_captures.py) calls captures() on a node.  The nodes are the shapes *)
(* of test_captures.py over three names: uses of names, one binder around  *)
(* them, and statement lists of one or two statements.                     *)

CaptureUses ==
    {X, Y, F, Three}
    \cup {Call(F, a) : a \in {X, Y}}
    \cup {TupleLit(<<X, Y>>), If(X, Y, F)}

CaptureLambdas == {Lambda(p, e) : p \in {X, Y}, e \in CaptureUses}

CaptureLets ==
    UNION {{Let(n, a, e), LetRec(n, a, e)} :
             n \in {X, F}, a \in {X, F, Three}, e \in CaptureUses}

CaptureStmts ==
    UNION {{LetStmt(n, e), LetStmtRec(n, e)} :
             n \in {X, F}, e \in CaptureUses \cup CaptureLambdas}

CaptureTopStmts ==
    {LetStmt(X, Three), LetStmt(F, Lambda(Y, X)),
     LetStmtRec(F, Lambda(X, Call(F, X))), LetStmt(Y, Call(F, X))}

CaptureNodes ==
    CaptureUses \cup CaptureLambdas \cup CaptureLets \cup CaptureStmts
    \cup {Lambda(X, Lambda(Y, e)) : e \in CaptureUses}
    \cup {TopLevelStmts(<<>>)}
    \cup {TopLevelStmts(<<s>>) : s \in CaptureTopStmts}
    \cup {TopLevelStmts(<<s, t>>) : s \in CaptureTopStmts, t \in CaptureTopStmts}

Captures(node) ==
    /\ last' = Outcome("captures", node, None, OK, captures(node))
    /\ UNCHANGED <<checker, builder>>

NextCaptures == \E node \in CaptureNodes : Captures(node)

SpecCaptures == Init /\ [][NextCaptures]_vars

-----------------------------------------------------------------------------
(* The state machine of closure emission: a client (as in                  *)
(* test_lir_to_nasm.py) allocates temporaries in main and emits            *)
(* CreateClosure instructions whose captures are temporaries, immediates   *)
(* and zero-sized values.                                                  *)

ClosureValues == {Temp64(0), I64("3"), Temp0}

ClosureCaptures == UNION {[1 .. n -> ClosureValues] : n \in 0 .. MaxCaptures}

ToNasm_emitted(instr, asm) ==
    /\ last' = Outcome("to_nasm", instr, None, asm.status, asm.ret)
    /\ UNCHANGED <<checker, builder>>

ToNasm(instr) == ToNasm_emitted(instr, CreateClosure_to_nasm(ctx, instr))

NextClosure ==
    \/ NewTemp64
    \/ \E vals \in ClosureCaptures, recursive \in BOOLEAN :
          ToNasm(CreateClosure(Label(1, <<"f">>), vals, Temp64(0), recursive))

SpecClosure == Init /\ [][NextClosure]_vars

-----------------------------------------------------------------------------
(* The state machine of the compile pipeline.  compile_src                 *)
(* (build/__init__.py) makes a Checker and a builder context, infers the   *)
(* types of the program and lowers it into the context.  A client that     *)
(* holds a context of its own (as in test_lir_to_nasm.py) can add the      *)
(* prelude to it with prelude.add_to_ctx and lower a type-checked program  *)
(* into it.  The programs are top-level statements: a binding of `x`, a    *)
(* function `f` (recursive or not) whose body uses its parameter, `x` and  *)
(* `f`, and a statement that uses `f`; and `exit 5;;`                      *)
(* (test_compiler_pipeline.py).                                            *)

Z == Ident("z")
Exit == Ident("exit")
ExitFive == TopLevelStmts(<<Call(Exit, Const("5", IntT))>>)

LowerValues == {Three, True, Call(Exit, Three)}

LowerBodies ==
    {Y, X, Call(F, X), Call(F, Y), TupleLit(<<X, Y>>),
     Lambda(Z, TupleLit(<<X, Y, Z>>)),
     Lambda(Z, Call(F, X)),
     If(Y, X, Three),
     Let(G, Lambda(Z, Z), Call(G, X)),
     Let(G, Lambda(Z, Y), Call(G, X)),
     Let(G, Lambda(Z, Z), Call(Exit, Call(G, X))),
     LetRec(G, Lambda(Z, Call(G, Z)), Call(G, X)),
     If(Y, If(Y, X, Three), If(Y, Three, X)),
     Call(Exit, X)}

LowerFunctions ==
    {LetStmt(F, Lambda(Y, body)) : body \in LowerBodies}
    \cup {LetStmtRec(F, Lambda(Y, body)) : body \in LowerBodies}

LowerUses == {Call(F, Three), LetStmt(G, Lambda(Y, F)), LetStmt(G, Lambda(Y, TupleLit(<<F, X>>)))}

\* `let f = fun y -> y;; let f = fun y -> x;;`: one name bound to two
\* functions
BindTwice ==
    TopLevelStmts(<<LetStmt(X, Three), LetStmt(F, Lambda(Y, Y)), LetStmt(F, Lambda(Y, X))>>)

\* The program of test_factorial with the argument k:
\* `let rec fact n = if n = 1 then 1 else n * (fact (n - 1));; exit (fact k);;`
N == Ident("n")
Fact == Ident("fact")
One == Const("1", IntT)
FactProgram(k) ==
    TopLevelStmts(<<
        LetStmtRec(Fact, Lambda(N, If(bin_op_expr(N, "=", One),
                                      One,
                                      bin_op_expr(N, "*", Call(Fact, bin_op_expr(N, "-", One)))))),
        Call(Exit, Call(Fact, Const(ToString(k), IntT)))>>)
FactPrograms == {FactProgram(k) : k \in 1 .. MaxFact}

LowerPrograms ==
    {TopLevelStmts(<<LetStmt(X, value), function, use>>) :
        value \in LowerValues, function \in LowerFunctions, use \in LowerUses}
    \cup {ExitFive, BindTwice}
    \cup FactPrograms

\* The orders in which the sets of one run are iterated.
Orders ==
    {order \in [1 .. 4 -> {X, Y, F, Exit}] : \A i, j \in 1 .. 4 : order[i] = order[j] => i = j}

AddToCtx_done(r) ==
    /\ ctx' = r.ctx
    /\ last' = Outcome("add_to_ctx", None, None, r.status, None)
    /\ UNCHANGED <<checker, withs>>

\* `prelude.add_to_ctx(ctx)` on a context nothing was lowered into
AddToCtx ==
    /\ last.op = "init"
    /\ AddToCtx_done(add_to_ctx(ctx))

\* The outcome of `ast.infer_type(checker)` followed by `ast.to_lir(ctx)`:
\* `r` is the outcome of the inference and `l` the outcome of the lowering,
\* which runs when the inference raised nothing.
Lower_done(op, ast, order, r, l) ==
    /\ map' = r.chk.u.map
    /\ non_generic_vars' = r.chk.u.non_generic_vars
    /\ fresh' = r.chk.u.fresh
    /\ type_env' = r.chk.type_env
    /\ ctx' = l.ctx
    /\ last' = [op |-> op, t1 |-> ast, t2 |-> order, status |-> l.status, ret |-> l.ret,
                inferred |-> r.status = OK, cached |-> r.chk.cached]
    /\ UNCHANGED withs

Lower_inferred(op, c, ast, order, r) ==
    Lower_done(op, ast, order, r,
               IF r.status = OK
               THEN to_lir(c, [cached |-> r.chk.cached, map |-> r.chk.u.map], order, ast)
               ELSE Failed(r.status, c))

\* `ast.infer_type(checker)`, `ast.to_lir(ctx)` with the Checker and the
\* context of the client
ToLir(ast, order) ==
    /\ last.op \in {"init", "add_to_ctx"}
    /\ Lower_inferred("to_lir", ctx, ast, order, infer_type(Chk, ast))

\* build.compile_src: one source is compiled, with a Checker and a context
\* of its own
CompileSrc(ast, order) ==
    /\ last.op = "init"
    /\ Lower_inferred("compile_src", NasmGenCtx, ast, order,
                   infer_type([u |-> NewChecker.u, type_env |-> NewChecker.env,
                               last_if |-> <<>>, cached |-> <<>>], ast))

NextLower ==
    \/ AddToCtx
    \/ \E ast \in LowerPrograms, order \in Orders : ToLir(ast, order)
    \/ \E ast \in LowerPrograms, order \in Orders : CompileSrc(ast, order)

SpecLower == Init /\ [][NextLower]_vars

-----------------------------------------------------------------------------
(* What the claims about the unifier speak of, defined on the dict alone   *)
(* and without the calls of the program: the representative of a class,    *)
(* the variables inside a term, and structural unification of two terms    *)
(* under the bindings the dict holds.                                      *)

\* The element at the end of e's parent chain; an element that is its own
\* parent ends the chain.
RECURSIVE Rep(_, _)
Rep(m, e) == IF IsInt(m[e]) \/ m[e] = e THEN e ELSE Rep(m, m[e])

\* The variables that occur in a term.
RECURSIVE VarsIn(_)
VarsIn(t) == IF IsVar(t) THEN {t} ELSE UNION {VarsIn(Vals(t)[i]) : i \in DOMAIN Vals(t)}

\* The variables met when the variables of S are replaced, again and again,
\* by the constructor terms at the end of their chains.
RECURSIVE Inside(_, _)
Inside(m, S) ==
    LET more == S \cup UNION {VarsIn(Rep(m, w)) : w \in {x \in S : x \in DOMAIN m}} IN
    IF more = S THEN S ELSE Inside(m, more)

\* v is bound to a constructor term that contains v, directly or through
\* the bindings of the variables inside it.
ContainsItself(m, v) ==
    /\ IsPoly(Rep(m, v))
    /\ \E w \in Inside(m, VarsIn(Rep(m, v))) : w \in DOMAIN m /\ Rep(m, w) = Rep(m, v)

\* Structural unification of t1 and t2 under the substitution s (a function
\* from bound variables to terms): "clash" when two corresponding positions
\* hold different constructors or a different number of children, "ok"
\* when the terms unify, "unknown" when `n` steps down do not decide it.
Walk(s, t) ==
    LET RECURSIVE W(_)
        W(x) == IF IsVar(x) /\ x \in DOMAIN s THEN W(s[x]) ELSE x
    IN W(t)

RECURSIVE RefUnify(_, _, _, _)
RECURSIVE RefUnifyVals(_, _, _, _, _)
RefUnify(s, t1, t2, n) ==
    LET a == Walk(s, t1)
        b == Walk(s, t2)
    IN
    IF n = 0 THEN [status |-> "unknown", s |-> s]
    ELSE IF IsVar(a) THEN
        IF a = b THEN [status |-> "ok", s |-> s] ELSE [status |-> "ok", s |-> (a :> b) @@ s]
    ELSE IF IsVar(b) THEN [status |-> "ok", s |-> (b :> a) @@ s]
    ELSE IF Cls(a) # Cls(b) \/ Len(Vals(a)) # Len(Vals(b)) THEN [status |-> "clash", s |-> s]
    ELSE RefUnifyVals(s, Vals(a), Vals(b), 1, n - 1)

RefUnifyVals(s, xs, ys, i, n) ==
    IF i > Len(xs) THEN [status |-> "ok", s |-> s]
    ELSE LET r == RefUnify(s, xs[i], ys[i], n) IN
         IF r.status # "ok" THEN r ELSE RefUnifyVals(r.s, xs, ys, i + 1, n)

\* The substitution a dict stands for: every variable with a parent is
\* bound to that parent.
Bindings(m) ==
    LET bound == {v \in DOMAIN m : IsVar(v) /\ ~IsInt(m[v]) /\ m[v] # v} IN
    [v \in bound |-> m[v]]

Clash(m, t1, t2) == RefUnify(Bindings(m), t1, t2, MaxDepth).status = "clash"

-----------------------------------------------------------------------------
(* Claims C1 - C4: the unifier.                                            *)

\* C1: after unify(t1, t2) has returned without error, concretize(t1) and
\* concretize(t2) return the same type.
C1_UnifiedTermsConcretizeEqual ==
    (last.op = "unify" /\ last.status = OK) =>
        LET c1 == concretize(map, last.t1, {})
            c2 == concretize(map, last.t2, {})
        IN c1.status = OK /\ c2.status = OK /\ c1.ret = c2.ret

\* C2: unify(t1, t2) raises a UnificationError whenever, under the bindings
\* made before and during the call, two corresponding positions of t1 and
\* t2 hold different constructors or a different number of children.
C2_ClashRaisesUnificationError ==
    [][(last'.op = "unify" /\ Clash(map, last'.t1, last'.t2))
        => last'.status \in {UnificationError, RecursiveUnificationError}]_vars

\* C3: after every sequence of unify calls no variable is bound to a type
\* that contains the variable itself.
C3_NoVariableInsideItsOwnType ==
    \A v \in DOMAIN map : IsVar(v) => ~ContainsItself(map, v)

\* C4: concretize is idempotent: concretize(t) returns a term r, and
\* concretize(r) returns r.
C4_ConcretizeIdempotent ==
    last.op = "concretize" =>
        /\ last.status = OK
        /\ LET c == concretize(map, last.ret, {}) IN c.status = OK /\ c.ret = last.ret

-----------------------------------------------------------------------------
(* Claim C10: type duplication.                                            *)

\* Two terms have the same constructor structure: a variable stands where
\* a variable stands, and constructors and numbers of children agree.
RECURSIVE SameShape(_, _)
SameShape(a, b) ==
    IF IsVar(a) \/ IsVar(b) THEN IsVar(a) /\ IsVar(b)
    ELSE /\ Cls(a) = Cls(b)
         /\ Len(Vals(a)) = Len(Vals(b))
         /\ \A i \in DOMAIN Vals(a) : SameShape(Vals(a)[i], Vals(b)[i])

\* The variable occurrences of a term, from left to right.
RECURSIVE VarSeq(_)
RECURSIVE VarSeqVals(_, _)
VarSeq(t) == IF IsVar(t) THEN <<t>> ELSE VarSeqVals(Vals(t), 1)
VarSeqVals(vals, i) ==
    IF i > Len(vals) THEN <<>> ELSE VarSeq(vals[i]) \o VarSeqVals(vals, i + 1)

\* `copy` is a duplicate of the term `orig`, made when `existing` was the
\* set of elements of the unifier and `ngv` the non-generic variables.
IsDuplicate(orig, copy, ngv, existing) ==
    /\ SameShape(orig, copy)
    /\ LET vs == VarSeq(orig)
           ws == VarSeq(copy)
       IN /\ \A i \in DOMAIN vs : vs[i] \in ngv => ws[i] = vs[i]
          /\ \A i \in DOMAIN vs : vs[i] \notin ngv => ws[i] \notin existing
          /\ \A i, j \in DOMAIN vs :
                (vs[i] \notin ngv /\ vs[j] \notin ngv) => ((vs[i] = vs[j]) <=> (ws[i] = ws[j]))
    /\ (VarsIn(orig) = {} => copy = orig)

\* C10: duplicate_type(t) returns a copy of concretize(t) of the same
\* structure that shares every non-generic variable, replaces every generic
\* variable by a variable that did not exist before the call, the same one
\* for the same variable and different ones for different variables, and
\* returns a term without variables unchanged.
C10_DuplicateCopiesGenericSharesNonGeneric ==
    [][(last'.op = "duplicate_type" /\ last'.status = OK)
        => IsDuplicate(concretize(map, last'.t1, {}).ret, last'.ret,
                       non_generic_vars, DOMAIN map)]_vars

\* A nested tuple with a generic variable in two places and a non-generic
\* variable in between has been duplicated.
C10_Witness ==
    /\ last.op = "duplicate_type"
    /\ last.status = OK
    /\ \E a, b \in Vars :
         /\ last.t1 = Tuple(<<a, Tuple(<<b, a>>)>>)
         /\ a \notin non_generic_vars /\ IsVar(concretize(map, a, {}).ret)
         /\ concretize(map, a, {}).ret \notin non_generic_vars
         /\ b \in non_generic_vars /\ concretize(map, b, {}).ret = b
         /\ last.ret # last.t1

-----------------------------------------------------------------------------
(* Claims C5 - C9: type inference, under SpecInfer.                        *)

\* The type of an argument of Args.
TypeOfArg(a) ==
    IF a = Three THEN IntT ELSE IF a = True THEN BoolT ELSE Fn(IntT, IntT)

\* C5: inferring `let f = fun x -> x in (f a, f b)`, and the form with
\* `pair (f a) (f b)`, succeeds with the tuple of the types of a and b
\* (Tuple(Int, Bool) for 3 and true): each use of f gets its own instance,
\* and the variable bound to f stays a function over an unbound, generic
\* variable.
C5_LetBoundFunctionIsPolymorphic ==
    [][\A a \in Args, b \in Args : \A body \in Uses(a, b) :
        (last'.op = "infer_type" /\ last'.t1 = Let(F, Lambda(X, X), body)) =>
            /\ last'.status = OK
            /\ last'.ret = Tuple(<<TypeOfArg(a), TypeOfArg(b)>>)
            /\ LET alpha == concretize(map', Var(fresh), {}).ret IN
               /\ Cls(alpha) = "Fn"
               /\ IsVar(Vals(alpha)[1])
               /\ Vals(alpha)[2] = Vals(alpha)[1]
               /\ Vals(alpha)[1] \notin non_generic_vars']_vars

\* `let f = fun x -> x in (f 3, f true)` has been inferred.
C5_Witness ==
    /\ last.op = "infer_type"
    /\ last.t1 = Let(F, Lambda(X, X), TupleLit(<<Call(F, Three), Call(F, True)>>))
    /\ last.status = OK
    /\ last.ret = Tuple(<<IntT, BoolT>>)

\* C6: when non_generic_vars is empty before an input and infer_type of the
\* input returns without error, non_generic_vars is empty again.
C6_NonGenericEmptyAfterInference ==
    [][(last'.op = "infer_type" /\ last'.status = OK /\ non_generic_vars = {})
        => non_generic_vars' = {}]_vars

\* C7: inferring `fun f -> pair (f a) (f b)`, or the form with the tuple
\* `(f a, f b)`, raises UnificationError for all arguments a and b of
\* different types.
C7_LambdaBoundIdentifierIsMonomorphic ==
    [][\A a \in Args, b \in Args : \A body \in Uses(a, b) :
        (/\ TypeOfArg(a) # TypeOfArg(b)
         /\ last'.op = "infer_type"
         /\ last'.t1 = Lambda(F, body)) => last'.status = UnificationError]_vars

\* `fun f -> pair (f 3) (f true)` has been rejected.
C7_Witness ==
    /\ last.op = "infer_type"
    /\ last.t1 = Lambda(F, Call(Call(Ident("pair"), Call(F, Three)), Call(F, True)))
    /\ last.status = UnificationError

\* C8: the expression the parser builds for `3 op 12` is inferred without
\* error, as Int for + - * div mod and as Bool for =.
C8_BinaryOperatorsTypeCheck ==
    [][\A op \in BinOps :
        (last'.op = "infer_type" /\ last'.t1 = bin_op_expr(Three, op, Twelve)) =>
            /\ last'.status = OK
            /\ last'.ret = (IF op = "=" THEN BoolT ELSE IntT)]_vars

\* C9: when the type of the predicate clashes with Bool, or the types of
\* the two branches clash, If.infer_type raises a UnificationError; when it
\* returns, it returns the concretized type of the `yes` branch, and the
\* `no` branch concretizes to the same type.
C9_IfMismatchRaisesUnificationError ==
    (last.op = "infer_type" /\ last.last_if # <<>>) =>
        LET i == last.last_if[1] IN
        /\ Clash(i.pred_map, i.pred_type, BoolT)
             => i.status \in {UnificationError, RecursiveUnificationError}
        /\ (i.yes_type # None /\ Clash(i.branch_map, i.yes_type, i.no_type))
             => i.status \in {UnificationError, RecursiveUnificationError}
        /\ i.status = OK =>
             /\ i.ret = concretize(i.end_map, i.yes_type, {}).ret
             /\ i.ret = concretize(i.end_map, i.no_type, {}).ret

-----------------------------------------------------------------------------
(* Claims C11 - C20.                                                       *)

\* C11: when unify(t1, t2) returns without error and one argument is a
\* variable that was non-generic before the call, every variable inside
\* the other argument is non-generic after it, in both argument orders;
\* and after make_non_generic(t) every variable inside t is non-generic.
C11_NonGenericSpreadsThroughUnify ==
    [][/\ ((last'.op = "unify" /\ last'.status = OK /\ IsVar(last'.t1)
               /\ last'.t1 \in non_generic_vars)
            => VarsIn(last'.t2) \subseteq non_generic_vars')
        /\ ((last'.op = "unify" /\ last'.status = OK /\ IsVar(last'.t2)
               /\ last'.t2 \in non_generic_vars)
            => VarsIn(last'.t1) \subseteq non_generic_vars')
        /\ (last'.op = "make_non_generic"
            => VarsIn(last'.t1) \subseteq non_generic_vars')]_vars

\* A compound type holding a variable at its top level and nested one level
\* down was unified, as the first argument, with a non-generic variable that
\* is not inside it, and every variable involved is non-generic.
C11_Witness ==
    /\ last.op = "unify"
    /\ last.status = OK
    /\ IsVar(last.t2)
    /\ last.t1 \in NonGenericTerms
    /\ last.t2 \notin VarsIn(last.t1)
    /\ VarsIn(last.t1) \cup {last.t2} \subseteq non_generic_vars

\* C12: an infer_type call that ends in an error leaves the scope depth and
\* the non-generic set as they were before the call.
C12_FailedInferenceRestoresScopes ==
    [][(last'.op = "infer_type" /\ last'.status # OK)
        => /\ Len(type_env') = Len(type_env)
           /\ non_generic_vars' = non_generic_vars]_vars

\* C13: when with-blocks of new_fn_def or inside_main are left, by the end
\* of the body or by an exception, current_fn, local_names and
\* captured_names are what they were when the outermost block that is left
\* was entered (innermost block first).
C13_WithBlocksRestoreTheBuilder ==
    [][Len(withs') < Len(withs)
        => /\ ctx'.current_fn = withs[Len(withs') + 1].old_fn_def
           /\ ctx'.local_names = withs[Len(withs') + 1].old_local_names
           /\ ctx'.captured_names = withs[Len(withs') + 1].old_captured_names]_vars

\* The scopes of the environment that define a key.
Defining(env, key) == {i \in DOMAIN env : key \in DOMAIN env[i]}

\* C14: a lookup returns the binding of the innermost scope that defines the
\* key and raises EnvKeyError when no scope defines it; an insertion binds
\* the key in the innermost scope and changes nothing else.
C14_LookupInnermostInsertInnermost ==
    [][/\ (last'.op = "getitem" /\ Defining(type_env, last'.t1[2]) = {}
           => last'.status = EnvKeyError)
       /\ (last'.op = "getitem" /\ Defining(type_env, last'.t1[2]) # {}
           => /\ last'.status = OK
              /\ \E i \in Defining(type_env, last'.t1[2]) :
                   /\ \A j \in Defining(type_env, last'.t1[2]) : j <= i
                   /\ last'.ret = type_env[i][last'.t1[2]])
       /\ (last'.op = "setitem"
           => /\ Len(type_env') = Len(type_env)
              /\ \A i \in 1 .. Len(type_env) - 1 : type_env'[i] = type_env[i]
              /\ DOMAIN type_env'[Len(type_env)]
                    = DOMAIN type_env[Len(type_env)] \cup {last'.t1[2]}
              /\ type_env'[Len(type_env)][last'.t1[2]] = last'.t2
              /\ \A k \in DOMAIN type_env[Len(type_env)] \ {last'.t1[2]} :
                   type_env'[Len(type_env)][k] = type_env[Len(type_env)][k])]_vars

\* A name bound to different types in the outermost and in the innermost of
\* three scopes was looked up and the innermost binding came back.
C14_Witness ==
    /\ last.op = "getitem"
    /\ last.status = OK
    /\ Len(type_env) = 3
    /\ last.t1[2] \in DOMAIN type_env[1] \cap DOMAIN type_env[3]
    /\ type_env[1][last.t1[2]] # type_env[3][last.t1[2]]
    /\ last.ret = type_env[3][last.t1[2]]

RECURSIVE Free(_)
RECURSIVE FreeStmts(_, _)

FreeStmts(stmts, i) ==
    IF i > Len(stmts) THEN {}
    ELSE Free(stmts[i])
           \cup (FreeStmts(stmts, i + 1)
                   \ (IF stmts[i][1] = "LetStmt" THEN {stmts[i][2]} ELSE {}))

Free(node) ==
    CASE node[1] = "Ident" -> {node}
      [] node[1] = "Const" -> {}
      [] node[1] = "Lambda" -> Free(node[3]) \ {node[2]}
      [] node[1] = "Call" -> Free(node[2]) \cup Free(node[3])
      [] node[1] = "If" -> Free(node[2]) \cup Free(node[3]) \cup Free(node[4])
      [] node[1] = "Let" ->
           IF node[5] THEN (Free(node[3]) \cup Free(node[4])) \ {node[2]}
           ELSE Free(node[3]) \cup (Free(node[4]) \ {node[2]})
      [] node[1] = "TupleLit" -> UNION {Free(node[2][i]) : i \in DOMAIN node[2]}
      [] node[1] = "LetStmt" ->
           IF node[4] THEN Free(node[3]) \ {node[2]} ELSE Free(node[3])
      [] node[1] = "TopLevelStmts" -> FreeStmts(node[2], 1)

\* C16: captures() of a node is the set of identifiers that occur free in
\* it.
C16_CapturesAreTheFreeIdentifiers ==
    last.op = "captures" => last.ret = Free(last.t1)

\* The steps of an assembly that write at an offset of the block.
Stores(asm) == {i \in DOMAIN asm : asm[i][1] = "store"}

RECURSIVE Nodes(_)
Nodes(node) ==
    {node} \cup
    CASE node[1] \in {"Ident", "Const"} -> {}
      [] node[1] = "Lambda" -> {node[2]} \cup Nodes(node[3])
      [] node[1] = "Call" -> Nodes(node[2]) \cup Nodes(node[3])
      [] node[1] = "If" -> Nodes(node[2]) \cup Nodes(node[3]) \cup Nodes(node[4])
      [] node[1] = "Let" -> {node[2]} \cup Nodes(node[3]) \cup Nodes(node[4])
      [] node[1] = "LetStmt" -> {node[2]} \cup Nodes(node[3])
      [] node[1] \in {"TupleLit", "TopLevelStmts"} ->
           UNION {Nodes(node[2][i]) : i \in DOMAIN node[2]}

\* C20: after infer_type has returned on an AST, reading the type of any
\* node of the AST succeeds.
C20_EveryNodeHasItsTypeCached ==
    (last.op = "infer_type" /\ last.status = OK)
    => \A node \in Nodes(last.t1) : type(last.cached, map, node).status = OK

\* The context while emit_text_section emits function i.
Emitting(i) == [ctx EXCEPT !.current_fn = i]

\* The EnvLookup instructions of `name` that function e holds before
\* position k of its body.
LookupsBefore(e, k, name) ==
    {j \in 1 .. k - 1 : /\ ctx.fns[e].body[j][1] = "EnvLookup"
                        /\ ctx.fns[e].body[j][4] = <<name>>}

\* Function e has a value for `name` when it reaches position k of its
\* body: the name is local, or it was looked up in the environment.
HasValueInScope(e, k, name) ==
    name \in DOMAIN ctx.dicts[e] \/ LookupsBefore(e, k, name) # {}

\* That value: the local, or the temporary of the last lookup.
ValueInScope(e, k, name) ==
    IF name \in DOMAIN ctx.dicts[e] THEN ctx.dicts[e][name]
    ELSE ctx.fns[e].body[CHOOSE j \in LookupsBefore(e, k, name) :
                            \A i \in LookupsBefore(e, k, name) : i <= j][3]

\* The write of the assembly `made` of the CreateClosure at position k of
\* function e that the assembly `read` of the EnvLookup `lookup` reads: it
\* is at the offset that is read, and it holds the pointer to the block
\* when the closure is recursive and the index is 0, and else the value
\* the name had in function e.
SlotAgrees(e, k, create, lookup, made, read) ==
    \E s \in Stores(made) :
        /\ made[s][2] = read[1][2]
        /\ read[1][2] = 8 * (lookup[2] + 1)
        /\ IF create[5] /\ lookup[2] = 0
           THEN made[s][3] = <<"r8", 0>>
           ELSE /\ HasValueInScope(e, k, lookup[4][1])
                /\ made[s][3] = to_nasm_val(Emitting(e),
                                            ValueInScope(e, k, lookup[4][1])).ret

Emitted(e, k, create, lookup, made, read) ==
    (made.status = OK /\ read.status = OK) =>
        SlotAgrees(e, k, create, lookup, made.ret, read.ret)

PreludeNames == {"exit", "print_int", "+", "-", "*", "div", "mod", "="}

IsPrefix(s, t) == Len(s) <= Len(t) /\ SubSeq(t, 1, Len(s)) = s

C19_PreludeInstalledBeforeUserCode ==
    (last.op = "compile_src" /\ last.inferred) =>
        /\ PreludeNames \subseteq DOMAIN ctx.dicts[ctx.main_local_names]
        /\ IsPrefix(add_to_ctx(NasmGenCtx).ctx.fns[1].body,
                    ctx.fns[ctx.main_fn_def].body)
        /\ (last.t1 = ExitFive => last.status = OK)

-----------------------------------------------------------------------------
(* Claims C27 - C29: the forest of the unifier.                            *)

\* The elements of the tree below the root r.
TreeOf(m, r) == {x \in DOMAIN m : Rep(m, x) = r}

\* The state part of C27: every concrete element sits in a tree whose root
\* is concrete, and a concretize(v) that returned a variable was asked about
\* a class without a concrete element.
ConcreteRoots ==
    /\ \A e \in DOMAIN map : (~IsVar(e)) => ~IsVar(Rep(map, e))
    /\ (last.op = "concretize" /\ last.status = OK /\ IsVar(last.ret)) =>
          \A e \in TreeOf(map, Rep(map, last.t1)) : IsVar(e)

\* The step part of C27: a successful unify of two variables of different
\* trees whose roots r1 and r2 are variables puts the root of the smaller tree under the root
\* of the larger, and one of the two under the other when the trees have
\* the same size.
SmallerUnderLarger ==
    (last'.op = "unify" /\ last'.status = OK /\ IsVar(last'.t1) /\ IsVar(last'.t2)
        /\ IsVar(Rep(map, last'.t1)) /\ IsVar(Rep(map, last'.t2))
        /\ Rep(map, last'.t1) # Rep(map, last'.t2)) =>
        LET r1 == Rep(map, last'.t1)
            r2 == Rep(map, last'.t2)
            size1 == Cardinality(TreeOf(map, r1))
            size2 == Cardinality(TreeOf(map, r2))
        IN
        /\ (size1 < size2) => (map'[r1] = r2)
        /\ (size1 > size2) => (map'[r2] = r1)
        /\ (size1 = size2) => (map'[r1] = r2 \/ map'[r2] = r1)

\* C27: in every reachable state a class that contains a concrete term has
\* a concrete term as its root, whatever the sizes of the trees joined, so
\* concretize(v) is a variable only when v's class holds no concrete term;
\* and when both roots are variables the root of the smaller tree is
\* attached under the root of the larger.
C27_ConcreteRootAndSmallerUnderLarger ==
    [][ConcreteRoots' /\ SmallerUnderLarger]_vars

\* A variable with two variables below it is attached under a concrete root:
\* a tree of three was joined with a tree of one.
C27_Witness ==
    \E w \in DOMAIN map :
        /\ IsVar(w)
        /\ (~IsInt(map[w])) /\ ~IsVar(map[w])
        /\ Cardinality({v \in DOMAIN map : IsVar(v) /\ v # w /\ map[v] = w}) >= 2

\* C29: in every reachable state, a non-generic variable v whose class
\* holds no concrete term has a non-generic variable as its representative
\* concretize(v), and duplicate_type(v) returns a member of v's class, never
\* a fresh variable.
C29_NonGenericRepresentative ==
    \A v \in non_generic_vars :
        LET c == concretize(map, v, {})
            d == duplicate_type(U, v, <<>>)
        IN
        (c.status = OK /\ IsVar(c.ret)) =>
            /\ is_non_generic(non_generic_vars, c.ret)
            /\ d.status = OK
            /\ d.ret \in TreeOf(map, Rep(map, v))

\* C28: after every successful unify the union-find forest is well formed:
\* from every element the parent chain reaches a root that holds an integer
\* size, so no element is its own parent or part of a parent cycle and
\* root_of returns.
C28_ForestStaysWellFormed ==
    (last.op = "unify" /\ last.status = OK) =>
        \A e \in DOMAIN map : root_of(map, e, {}).status = OK

-----------------------------------------------------------------------------
(* Claims C21 - C26 and C30: the code the lowering emits.                  *)

\* The locals of a function: its temporaries without parameter and
\* environment.
Locals(fn) == DOMAIN fn.temporaries \ {fn.param, fn.env}

\* C25: in every function with an 8-byte parameter and environment the
\* parameter is at offset +16 and the environment at +24, the i-th local
\* allocated has id i and offset -8*(i+1), no two temporaries share an
\* offset, and the operand of `enter` is 8 times the number of locals, so
\* that the slot of every local lies inside the reserved area.
C25_FrameLayout ==
    \A i \in DOMAIN ctx.fns :
        LET fn == ctx.fns[i] IN
        (size(fn.param) = 8 /\ size(fn.env) = 8) =>
            /\ fn.temporaries[fn.param] = 16
            /\ fn.temporaries[fn.env] = 24
            /\ Locals(fn) = {Temp64(k) : k \in 0 .. fn.next_temp_id - 1}
            /\ \A k \in 0 .. fn.next_temp_id - 1 : fn.temporaries[Temp64(k)] = -8 * (k + 1)
            /\ \A t1 \in DOMAIN fn.temporaries : \A t2 \in DOMAIN fn.temporaries :
                  (fn.temporaries[t1] = fn.temporaries[t2]) => (t1 = t2)
            /\ local_alloca_size(fn) = 8 * Cardinality(Locals(fn))
            /\ \A t \in Locals(fn) :
                  /\ fn.temporaries[t] >= -local_alloca_size(fn)
                  /\ fn.temporaries[t] + size(t) <= 0

\* A function with an 8-byte parameter holds three locals or more.
C25_Witness ==
    \E i \in DOMAIN ctx.fns :
        /\ size(ctx.fns[i].param) = 8
        /\ ctx.fns[i].next_temp_id >= 3

\* A lowering of a whole program has ended.
LoweredProgram == last.op \in {"to_lir", "compile_src"} /\ last.inferred

\* The names a Let or LetStmt with a Lambda on its right has to capture: the
\* free identifiers of the lambda, and the name defined when recursive.
CapturedBy(node) == {ident[2] : ident \in Free(node[3]) \cup (IF node[5] THEN {node[2]} ELSE {})}

\* Function e creates at position k the closure of function g for the Let
\* `node`: the closure lists one value for every free identifier of the
\* lambda other than the name defined, and the body of g reads every
\* captured name with an EnvLookup, the name defined at index 0.
LetClosure(node, e, k, g) ==
    LET create == ctx.fns[e].body[k] IN
    /\ create[1] = "CreateClosure"
    /\ create[2] = ctx.fns[g].label
    /\ ctx.fns[g].label[3] = <<node[2][2]>>
    /\ create[5] = node[5]
    /\ Len(create[3]) = Cardinality(Free(node[3]) \ {node[2]})
    /\ \A name \in CapturedBy(node) :
          \E j \in DOMAIN ctx.fns[g].body :
              /\ ctx.fns[g].body[j][1] = "EnvLookup"
              /\ ctx.fns[g].body[j][4] = <<name>>
              /\ (name = node[2][2]) => (ctx.fns[g].body[j][2] = 0)

\* C23: a Let with a Lambda on its right is lowered like the LetStmt with
\* the same sides: the lowering ends without error, the CreateClosure lists
\* the values of the lambda's free identifiers, and the body of the nested
\* function reads the free identifiers (and the name defined, at index 0,
\* when recursive) with EnvLookup.  This is stated of closed programs,
\* every identifier of which is bound in the program, without boolean
\* literals, which the lowering does not implement.
C23_LetLowersLambdaLikeLetStmt ==
    (LoweredProgram /\ Free(last.t1) = {} /\ True \notin Nodes(last.t1)) =>
        \A node \in Nodes(last.t1) :
            (node[1] = "Let" /\ node[3][1] = "Lambda") =>
                /\ last.status = OK
                /\ \E e \in DOMAIN ctx.fns, g \in DOMAIN ctx.fns :
                      \E k \in DOMAIN ctx.fns[e].body : LetClosure(node, e, k, g)

\* C22: the factorial program `let rec fact n = if n = 1 then 1 else
\* n * (fact (n - 1));; exit (fact k);;` compiles for every k of the range:
\* type inference and lowering end without error, with or without the
\* prelude installed by the client, which is what its execution and its
\* exit status k! mod 256 presuppose.
C22_FactorialCompiles ==
    (last.op \in {"to_lir", "compile_src"} /\ last.t1 \in FactPrograms) =>
        (last.inferred /\ last.status = OK)

\* The places of the text section that define a label: <<i, 0>> is the entry
\* of function i and <<i, k>> the LabelInstr at position k of its body.
LabelDefs ==
    {<<i, 0>> : i \in DOMAIN ctx.fns}
    \cup UNION {{<<i, k>> : k \in {j \in DOMAIN ctx.fns[i].body :
                                     ctx.fns[i].body[j][1] = "LabelInstr"}} :
                i \in DOMAIN ctx.fns}

\* The label defined at a place, and the name emitted for it.
LabelAt(p) ==
    IF p[2] = 0 THEN ctx.fns[p[1]].label
    ELSE Label(ctx.fns[p[1]].body[p[2]][2], ctx.fns[p[1]].body[p[2]][3])

\* C30: after a lowering that ended without error, no two places of the
\* text section define a label of the same name (main, the functions named
\* after bindings, lambdas and the branch labels L<id>), and every label id
\* is below next_label_id and is used by one label only.
C30_LabelNamesAreDistinct ==
    (LoweredProgram /\ last.status = OK) =>
        \A p \in LabelDefs, q \in LabelDefs :
            /\ LabelAt(p)[2] < ctx.next_label_id
            /\ (Label_name(LabelAt(p)) = Label_name(LabelAt(q))) => (p = q)

\* The places of the text section that define the label with this id.
DefsOf(id) == {p \in LabelDefs : LabelAt(p)[2] = id}

\* The instructions of one If in the body of a function: the IfFalse at
\* position k jumps to else_lbl; at position g the yes-branch ends with
\* Assign(result, yes_val) and Goto(end_lbl), the definition of else_lbl
\* follows, and at position d the no-branch ends with Assign(result, no_val)
\* and the definition of end_lbl.
IfShape(body, k, g, d) ==
    LET else_lbl == body[k][3]
        end_lbl == body[g][2]
    IN
    /\ k < g - 1 /\ g + 1 < d - 1
    /\ body[g - 1][1] = "Assign"
    /\ body[g][1] = "Goto"
    /\ body[g + 1] = LabelInstr(else_lbl)
    /\ body[d - 1][1] = "Assign"
    /\ body[d - 1][2] = body[g - 1][2]
    /\ body[d] = LabelInstr(end_lbl)
    /\ else_lbl # end_lbl
    /\ end_lbl[2] = else_lbl[2] + 1
    /\ Cardinality(DefsOf(else_lbl[2])) = 1
    /\ Cardinality(DefsOf(end_lbl[2])) = 1

\* C26: after a lowering that ended without error every IfFalse of every
\* function is followed, in this order, by the instructions of the yes
\* branch, Assign(result, yes_val), Goto(end_lbl), the definition of
\* else_lbl, the instructions of the no branch, Assign(result, no_val) and
\* the definition of end_lbl; both Assigns write the same temporary,
\* else_lbl and end_lbl differ and each is defined exactly once in the
\* program, so that nested Ifs never share a label.
C26_IfLoweringOrder ==
    (LoweredProgram /\ last.status = OK) =>
        \A i \in DOMAIN ctx.fns :
            LET body == ctx.fns[i].body IN
            \A k \in DOMAIN body :
                (body[k][1] = "IfFalse") =>
                    \E g \in DOMAIN body, d \in DOMAIN body : IfShape(body, k, g, d)

\* A function holds an If with an If in each of its branches.
C26_Witness ==
    /\ LoweredProgram
    /\ last.status = OK
    /\ \E i \in DOMAIN ctx.fns :
          Cardinality({k \in DOMAIN ctx.fns[i].body : ctx.fns[i].body[k][1] = "IfFalse"}) >= 3

\* The Call nodes of an AST, one entry for every occurrence.
RECURSIVE CallsIn(_)
RECURSIVE CallsInAll(_, _)
CallsInAll(nodes, i) ==
    IF i > Len(nodes) THEN <<>> ELSE CallsIn(nodes[i]) \o CallsInAll(nodes, i + 1)

CallsIn(node) ==
    CASE node[1] \in {"Ident", "Const"} -> <<>>
      [] node[1] = "Lambda" -> CallsIn(node[3])
      [] node[1] = "Call" -> <<node>> \o CallsIn(node[2]) \o CallsIn(node[3])
      [] node[1] = "If" -> CallsIn(node[2]) \o CallsIn(node[3]) \o CallsIn(node[4])
      [] node[1] = "Let" -> CallsIn(node[3]) \o CallsIn(node[4])
      [] node[1] = "LetStmt" -> CallsIn(node[3])
      [] node[1] \in {"TupleLit", "TopLevelStmts"} -> CallsInAll(node[2], 1)

\* The places <<i, k>> of the instructions of one class.
Places(class) ==
    UNION {{<<i, k>> : k \in {j \in DOMAIN ctx.fns[i].body : ctx.fns[i].body[j][1] = class}} :
           i \in DOMAIN ctx.fns}

InstrAt(p) == ctx.fns[p[1]].body[p[2]]

\* The CallClosure at place p is emitted, when its closure and its argument
\* have operands: without a move from rax when its result is Temp0, and
\* otherwise with a last instruction that moves rax to the slot of its
\* result, a local of the function that no other call of the function
\* writes.
CallEmitted(p, asm) ==
    (/\ to_nasm_val(Emitting(p[1]), InstrAt(p)[2]).status = OK
     /\ to_nasm_val(Emitting(p[1]), InstrAt(p)[3]).status = OK) =>
        /\ asm.status = OK
        /\ IF InstrAt(p)[4] = Temp0
           THEN \A s \in DOMAIN asm.ret : asm.ret[s][1] # "mov from rax"
           ELSE /\ InstrAt(p)[4] \in Locals(ctx.fns[p[1]])
                /\ asm.ret[Len(asm.ret)][1] = "mov from rax"
                /\ asm.ret[Len(asm.ret)][3] = <<"rbp", ctx.fns[p[1]].temporaries[InstrAt(p)[4]]>>
                /\ \A q \in Places("CallClosure") :
                      (q[1] = p[1] /\ InstrAt(q)[4] = InstrAt(p)[4]) => (q = p)

\* The Return of a value without size at place p clears rax and goes on
\* with the epilogue of its function.
ReturnEmitted(p, asm) ==
    (size(InstrAt(p)[2]) = 0) =>
        /\ asm.status = OK
        /\ asm.ret = <<<<"xor rax, rax", 0, None>>>> \o get_epilogue(ctx.fns[p[1]])

\* The occurrences of calls whose inferred type is Unit.
UnitCalls(calls) ==
    {j \in DOMAIN calls : type(last.cached, map, calls[j]).ret = UnitT}

\* C21: after a lowering that ended without error there is one CallClosure
\* with the result Temp0 for every Call of the program whose inferred type
\* is Unit and one CallClosure with a Temp64 of its own for every other
\* Call; the assembly of the first kind holds no move of rax into a result
\* slot, the assembly of the second kind ends with that move; and a Return
\* of a value without size sets rax to zero before the epilogue.
C21_UnitResults ==
    (LoweredProgram /\ last.status = OK) =>
        /\ Cardinality({p \in Places("CallClosure") : InstrAt(p)[4] = Temp0})
              = Cardinality(UnitCalls(CallsIn(last.t1)))
        /\ Cardinality({p \in Places("CallClosure") : InstrAt(p)[4] # Temp0})
              = Len(CallsIn(last.t1)) - Cardinality(UnitCalls(CallsIn(last.t1)))
        /\ \A p \in Places("CallClosure") :
              CallEmitted(p, CallClosure_to_nasm(Emitting(p[1]), InstrAt(p)))
        /\ \A p \in Places("Return") :
              ReturnEmitted(p, Return_to_nasm(Emitting(p[1]), InstrAt(p)))

\* A program was lowered that calls a function of result Unit and a function
\* of another result, and a function returns a value without size.
C21_Witness ==
    /\ LoweredProgram
    /\ last.status = OK
    /\ \E p \in Places("CallClosure") : InstrAt(p)[4] = Temp0
    /\ \E p \in Places("CallClosure") : InstrAt(p)[4] # Temp0
    /\ \E p \in Places("Return") : InstrAt(p)[2] = Temp0

\* The stack pointer after the steps of an assembly from position s on,
\* when the function called is `callee` and the stack pointer is rsp.
\* A push lowers it by 8.  `call` pushes the return address; the callee's
\* `enter n, 0` pushes rbp, copies rsp to rbp and reserves n bytes; its
\* `leave` copies rbp back to rsp and pops rbp, whatever its body did to
\* rsp; its `ret k` pops the return address and k bytes more.
AfterCall(rsp, callee) ==
    LET at_entry == rsp - 8
        rbp == at_entry - 8
        after_leave == rbp + 8
    IN after_leave + 8 + get_epilogue(callee)[2][2]

RECURSIVE StackAfter(_, _, _, _)
StackAfter(asm, s, rsp, callee) ==
    IF s > Len(asm) THEN rsp
    ELSE StackAfter(asm, s + 1,
                    CASE asm[s][1] \in {"push", "push rax"} -> rsp - 8
                      [] asm[s][1] = "call [rax]" -> AfterCall(rsp, callee)
                      [] OTHER -> rsp,
                    callee)

\* The position of the `call` in an assembly.
CallStep(asm) == CHOOSE s \in DOMAIN asm : asm[s][1] = "call [rax]"

\* The CallClosure at place p, when it is emitted, pushes the closure and
\* the argument, 16 bytes, before its call, and whichever function made by
\* new_fn_def it calls, the stack pointer is afterwards what it was before
\* the pushes.
CallBalanced(p, asm, rsp) ==
    (asm.status = OK) =>
        /\ asm.ret[1][1] = "mov rax"
        /\ asm.ret[2][1] = "push rax"
        /\ asm.ret[3][1] = "push"
        /\ CallStep(asm.ret) = 4
        /\ StackAfter(SubSeq(asm.ret, 1, 3), 1, rsp, ctx.fns[1]) = rsp - 16
        /\ \A g \in DOMAIN ctx.fns :
              (g # ctx.main_fn_def) => (StackAfter(asm.ret, 1, rsp, ctx.fns[g]) = rsp)

\* C24: in every state every function made by new_fn_def ends with
\* `leave; ret 16` and main with `leave; ret 0`, and every emitted
\* CallClosure leaves the stack pointer of its caller as it was before the
\* two pushes, whichever function is called.  As this holds for every call
\* of every function, calls in calls and recursive calls included, it holds
\* for every nesting depth.
C24_StackBalance ==
    /\ \A g \in DOMAIN ctx.fns :
          get_epilogue(ctx.fns[g])
            = <<<<"leave", 0, None>>, <<"ret", IF g = ctx.main_fn_def THEN 0 ELSE 16, None>>>>
    /\ \A p \in Places("CallClosure") :
          CallBalanced(p, CallClosure_to_nasm(Emitting(p[1]), InstrAt(p)), 0)

\* A recursive function was lowered that calls itself through the closure
\* read from slot 0 of its environment, and the call is emitted.
C24_Witness ==
    /\ LoweredProgram
    /\ last.status = OK
    /\ \E p \in Places("CallClosure"), q \in Places("EnvLookup"), r \in Places("CreateClosure") :
          /\ p[1] = q[1]
          /\ q[2] < p[2]
          /\ InstrAt(q)[2] = 0
          /\ InstrAt(q)[3] = InstrAt(p)[2]
          /\ InstrAt(r)[2] = ctx.fns[p[1]].label
          /\ InstrAt(r)[5]
          /\ CallClosure_to_nasm(Emitting(p[1]), InstrAt(p)).status = OK
====
